---- MODULE Spec2Model ----
(***************************************************************************)
(* A model of the schema reflection generator of edgedb-js                 *)
(* (src/reflection/generate.ts): fetchTypes' topological sort of the       *)
(* introspected types, generateQB's emission of enums, interfaces, the     *)
(* flattened spec and the type handles, and the pure projections           *)
(* toCardinality and toJsObjectType.                                       *)
(*                                                                         *)
(* A type name is kept as the list of its parts, name.split("::"); a type  *)
(* id is a number; a buffer is its import list and its body lines.         *)
(***************************************************************************)
EXTENDS Integers, Sequences, FiniteSets, TLC

\* ------------------------------------------------------------------ bounds

\* Number of types in a graph snapshot (ids 1..MaxTypes).
MaxTypes == 3

\* An id no snapshot holds: a dangling reference.
AbsentId == MaxTypes + 1

\* material_id: null
NoId == 0

\* ----------------------------------------------------------------- helpers

Range(s) == {s[k] : k \in 1..Len(s)}

Contains(s, x) == \E k \in 1..Len(s) : s[k] = x

\* Set.add on an insertion-ordered Set kept as a list without repetitions.
SetAdd(s, x) == IF Contains(s, x) THEN s ELSE Append(s, x)

\* Set.delete on an insertion-ordered Set.
SetDelete(s, x) == SelectSeq(s, LAMBDA y : y # x)

\* Array.prototype.join
RECURSIVE Join(_, _)
Join(s, sep) ==
  IF s = <<>> THEN ""
  ELSE IF Len(s) = 1 THEN s[1]
  ELSE s[1] \o sep \o Join(Tail(s), sep)

\* Set.add of every element of xs in order.
RECURSIVE AddAll(_, _)
AddAll(s, xs) ==
  IF xs = <<>> THEN s ELSE AddAll(SetAdd(s, Head(xs)), Tail(xs))

\* Array.prototype.slice(from, to), 0-based, end exclusive.
Slice(s, from, to) ==
  IF from >= Len(s) THEN <<>>
  ELSE SubSeq(s, from + 1, IF to > Len(s) THEN Len(s) ELSE to)

\* ------------------------------------------------------- introspected types

ObjectType(id, name, bases, ancestors, union_of, intersection_of, pointers) ==
  [kind |-> "object", id |-> id, name |-> name, bases |-> bases,
   ancestors |-> ancestors, union_of |-> union_of,
   intersection_of |-> intersection_of, pointers |-> pointers,
   enum_values |-> <<>>, material_id |-> NoId, array_element_id |-> NoId,
   tuple_elements |-> <<>>]

ScalarType(id, name, bases, ancestors, enum_values, material_id) ==
  [kind |-> "scalar", id |-> id, name |-> name, bases |-> bases,
   ancestors |-> ancestors, union_of |-> <<>>, intersection_of |-> <<>>,
   pointers |-> <<>>, enum_values |-> enum_values,
   material_id |-> material_id, array_element_id |-> NoId,
   tuple_elements |-> <<>>]

ArrayType(id, name, array_element_id) ==
  [kind |-> "array", id |-> id, name |-> name, bases |-> <<>>,
   ancestors |-> <<>>, union_of |-> <<>>, intersection_of |-> <<>>,
   pointers |-> <<>>, enum_values |-> <<>>, material_id |-> NoId,
   array_element_id |-> array_element_id, tuple_elements |-> <<>>]

TupleType(id, name, tuple_elements) ==
  [kind |-> "tuple", id |-> id, name |-> name, bases |-> <<>>,
   ancestors |-> <<>>, union_of |-> <<>>, intersection_of |-> <<>>,
   pointers |-> <<>>, enum_values |-> <<>>, material_id |-> NoId,
   array_element_id |-> NoId, tuple_elements |-> tuple_elements]

Pointer(name, kind, cardinality, required, target_id, pointers) ==
  [name |-> name, kind |-> kind, cardinality |-> cardinality,
   required |-> required, target_id |-> target_id, pointers |-> pointers]

\* ------------------------------------------------------------------ errors

NoError == [kind |-> "none"]

\* throw new Error(`reference to an unknown object type: ${base}`)
UnknownTypeError(base) == [kind |-> "unknown_type", id |-> base]

\* throw new Error(`dependency cycle between ${type.name} and ${last}`)
CycleError(name, last) == [kind |-> "cycle", name |-> name, last |-> last]

\* StrictMap.get on a key the map does not hold.
KeyError(key) == [kind |-> "key_not_found", id |-> key]

\* getModule / getName on a name that is not <module>::<local name>.
NameError(fn, name) == [kind |-> "invalid_name", fn |-> fn, name |-> name]

\* ------------------------------------------------- results of a projection

\* A projection returns its text and the imports it registered, or throws.
Ok(text, imports) == [ok |-> TRUE, text |-> text, imports |-> imports]

Fail(e) == [ok |-> FALSE, err |-> e]

\* StrictMap.has / StrictMap.get on the sorted types.
TypesHas(ts, id) == \E k \in 1..Len(ts) : ts[k].id = id

TypesGet(ts, id) == ts[CHOOSE k \in 1..Len(ts) : ts[k].id = id]

\* name.split("::") has exactly two parts, or getModule / getName throw.
getModule(name) ==
  IF Len(name) # 2 THEN Fail(NameError("getModule", name)) ELSE Ok(name[1], <<>>)

getName(name) ==
  IF Len(name) # 2 THEN Fail(NameError("getName", name)) ELSE Ok(name[2], <<>>)

\* The name as the string the snapshot holds.
FullName(name) == Join(name, "::")

\* snToIdent on the strings of the model: every run of characters outside
\* [a-zA-Z0-9_] becomes one "_".
snToIdent(s) ==
  CASE s = "dark-red" -> "dark_red"
    [] s = "light blue" -> "light_blue"
    [] OTHER -> s

\* toCardinality with the two `Many` names the wrong way round.
toCardinalitySwapped(p) ==
  IF p.cardinality = "One"
  THEN IF p.required THEN "One" ELSE "AtMostOne"
  ELSE IF p.required THEN "Many" ELSE "AtLeastOne"

toCardinality(p) ==
  IF p.cardinality = "One"
  THEN IF p.required THEN "One" ELSE "AtMostOne"
  ELSE IF p.required THEN "AtLeastOne" ELSE "Many"

EdgedbImport == "import * as edgedb from \"edgedb\";"

toPrimitiveJsType(s) ==
  LET n == FullName(s.name)
  IN CASE n \in {"std::int16", "std::int32", "std::int64", "std::float32",
                 "std::float64"} -> Ok("number", <<>>)
       [] n \in {"std::str", "std::uuid", "std::json"} -> Ok("string", <<>>)
       [] n = "std::bool" -> Ok("boolean", <<>>)
       [] n = "std::bigint" -> Ok("BigInt", <<>>)
       [] n = "std::datetime" -> Ok("Date", <<>>)
       [] n = "std::duration" -> Ok("edgedb.Duration", <<EdgedbImport>>)
       [] n = "cal::local_datetime" ->
            Ok("edgedb.LocalDateTime", <<EdgedbImport>>)
       [] n = "cal::local_date" -> Ok("edgedb.LocalDate", <<EdgedbImport>>)
       [] n = "cal::local_time" -> Ok("edgedb.LocalTime", <<EdgedbImport>>)
       [] OTHER -> Ok("unknown", <<>>)

\* Number.isNaN(Number(name)) in the place of parseInt: the whole name must
\* be a number, and the empty name is 0.
NumberIsNaN(name) == name \notin {"0", "1", "2", ""}

\* Number.isNaN(parseInt(name, 10)) on the element names of the model:
\* parseInt reads a leading run of digits and is NaN when there is none.
ParseIntIsNaN(name) == name \notin {"0", "1", "2", "1st"}

\* assertNever(type)
NeverError(type) == [kind |-> "never", id |-> type.id]

RECURSIVE toJsScalarType(_, _, _, _)
RECURSIVE ScalarElements(_, _, _, _, _)

\* The projections of the tuple elements els, in order: their texts (each
\* `name: type` when named) and imports, or the first error.
ScalarElements(els, ts, currentModule, level, named) ==
  IF els = <<>> THEN [ok |-> TRUE, texts |-> <<>>, imports |-> <<>>]
  ELSE IF ~TypesHas(ts, els[1].target_id)
    THEN Fail(KeyError(els[1].target_id))
  ELSE LET tn == toJsScalarType(TypesGet(ts, els[1].target_id), ts,
                                currentModule, level + 1)
       IN IF ~tn.ok THEN tn
          ELSE LET rest == ScalarElements(Tail(els), ts, currentModule,
                                          level, named)
               IN IF ~rest.ok THEN rest
                  ELSE [ok |-> TRUE,
                        texts |-> <<IF named
                                     THEN els[1].name \o ": " \o tn.text
                                     ELSE tn.text>> \o rest.texts,
                        imports |-> AddAll(tn.imports, rest.imports)]

toJsScalarType(type, ts, currentModule, level) ==
  CASE type.kind = "scalar" ->
         IF type.enum_values # <<>>
         THEN LET mod == getModule(type.name)
              IN IF ~mod.ok THEN mod
                 ELSE Ok(mod.text \o "Enums." \o getName(type.name).text,
                         <<"import type * as " \o mod.text
                             \o "Enums from \"../modules/" \o mod.text
                             \o "\";">>)
         ELSE IF type.material_id # NoId
         THEN IF ~TypesHas(ts, type.material_id)
              THEN Fail(KeyError(type.material_id))
              ELSE toJsScalarType(TypesGet(ts, type.material_id), ts,
                                  currentModule, level + 1)
         ELSE toPrimitiveJsType(type)
    [] type.kind = "array" ->
         IF ~TypesHas(ts, type.array_element_id)
         THEN Fail(KeyError(type.array_element_id))
         ELSE LET tn == toJsScalarType(TypesGet(ts, type.array_element_id),
                                       ts, currentModule, level + 1)
              IN IF ~tn.ok THEN tn ELSE Ok(tn.text \o "[]", tn.imports)
    [] type.kind = "tuple" ->
         IF type.tuple_elements = <<>> THEN Ok("[]", <<>>)
         ELSE IF /\ type.tuple_elements[1].name # ""
                 /\ ParseIntIsNaN(type.tuple_elements[1].name)
         THEN \* a named tuple
              LET res == ScalarElements(type.tuple_elements, ts,
                                        currentModule, level, TRUE)
              IN IF ~res.ok THEN res
                 ELSE Ok("{" \o Join(res.texts, ",") \o "}", res.imports)
         ELSE \* an ordinary tuple
              LET res == ScalarElements(type.tuple_elements, ts,
                                        currentModule, level, FALSE)
              IN IF ~res.ok THEN res
                 ELSE Ok("[" \o Join(res.texts, ",") \o "]", res.imports)
    [] OTHER -> Fail(NeverError(type))

RECURSIVE toJsObjectType(_, _, _, _)
RECURSIVE ObjectMembers(_, _, _, _)

\* The projections of the member types ids, in order, or the first error.
ObjectMembers(ids, ts, currentMod, level) ==
  IF ids = <<>> THEN [ok |-> TRUE, texts |-> <<>>, imports |-> <<>>]
  ELSE IF ~TypesHas(ts, ids[1]) THEN Fail(KeyError(ids[1]))
  ELSE LET sub == toJsObjectType(TypesGet(ts, ids[1]), ts, currentMod,
                                 level + 1)
       IN IF ~sub.ok THEN sub
          ELSE LET rest == ObjectMembers(Tail(ids), ts, currentMod, level)
               IN IF ~rest.ok THEN rest
                  ELSE [ok |-> TRUE, texts |-> <<sub.text>> \o rest.texts,
                        imports |-> AddAll(sub.imports, rest.imports)]

\* Parenthesize that wraps at every level, the outermost too.
ParenthesizeAlways(ret, level) == "(" \o ret \o ")"

\* level > 0 ? `(${ret})` : ret
Parenthesize(ret, level) == IF level > 0 THEN "(" \o ret \o ")" ELSE ret

toJsObjectType(type, ts, currentMod, level) ==
  IF type.intersection_of # <<>>
  THEN LET res == ObjectMembers(type.intersection_of, ts, currentMod, level)
       IN IF ~res.ok THEN res
          ELSE Ok(Parenthesize(Join(res.texts, " & "), level), res.imports)
  ELSE IF type.union_of # <<>>
  THEN LET res == ObjectMembers(type.union_of, ts, currentMod, level)
       IN IF ~res.ok THEN res
          ELSE Ok(Parenthesize(Join(res.texts, " | "), level), res.imports)
  ELSE LET mod == getModule(type.name)
       IN IF ~mod.ok THEN mod
          ELSE IF mod.text # currentMod
          THEN Ok(mod.text \o "Types." \o getName(type.name).text,
                  <<"import type * as " \o mod.text \o "Types from \"./"
                      \o mod.text \o "\";">>)
          ELSE Ok(getName(type.name).text, <<>>)

\* ----------------------------------------------------- the output buffers

\* A CodeBuilder: its imports (a Set, in insertion order) and its body. The
\* body is the list of the declarations written, each holding what its
\* lines hold, in the order they were written; `of` is the id of the type a
\* declaration was written for, which the text does not hold.
EmptyBuffer == [imports |-> <<>>, lines |-> <<>>]

\* DirBuilder.getPath: the buffer of path, created empty when new.
GetPath(d, path) == IF path \in DOMAIN d THEN d ELSE (path :> EmptyBuffer) @@ d

AddImports(d, path, imps) ==
  LET e == GetPath(d, path)
  IN [e EXCEPT ![path].imports = AddAll(@, imps)]

Writeln(d, path, line) ==
  LET e == GetPath(d, path)
  IN [e EXCEPT ![path].lines = Append(@, line)]

\* CodeBuilder.isEmpty
IsEmpty(d, path) == d[path].lines = <<>>

ModulesPath(mod) == "modules/" \o mod \o ".ts"

TypesPath(mod) == "__types__/" \o mod \o ".ts"

SpecPath == "__spec__.ts"

IndexPath == "index.ts"

ReflectionImport == "import {reflection as $} from \"edgedb\";"

IsCompound(type) == type.union_of # <<>> \/ type.intersection_of # <<>>

\* What one round of an emission loop gives: the buffers, or the error.
Emitted(d) == [ok |-> TRUE, dir |-> d]

\* ---------------------------------------------------------------- enums

\* The first loop of generateQB on one type: its module is recorded and, if
\* it is an enum, the enum is written to modules/<mod>.ts.
EnumRound(type, d) ==
  IF type.kind # "scalar" /\ type.kind # "object" THEN Emitted(d)
  ELSE LET mod == getModule(type.name)
       IN IF ~mod.ok THEN mod
          ELSE IF type.kind # "scalar" \/ type.enum_values = <<>>
          THEN Emitted(d)
          ELSE Emitted(Writeln(d, ModulesPath(mod.text),
                 [decl |-> "enum", of |-> type.id,
                  name |-> getName(type.name).text,
                  values |-> [k \in 1..Len(type.enum_values) |->
                                <<snToIdent(type.enum_values[k]),
                                  type.enum_values[k]>>]]))

\* ----------------------------------------------------------- interfaces

\* The `extends` list of an interface: each base resolved and qualified.
RECURSIVE InterfaceBases(_, _, _)
InterfaceBases(bases, ts, mod) ==
  IF bases = <<>> THEN [ok |-> TRUE, texts |-> <<>>, imports |-> <<>>]
  ELSE IF ~TypesHas(ts, bases[1]) THEN Fail(KeyError(bases[1]))
  ELSE LET baseType == TypesGet(ts, bases[1])
           baseMod == getModule(baseType.name)
       IN IF ~baseMod.ok THEN baseMod
          ELSE LET rest == InterfaceBases(Tail(bases), ts, mod)
                   nm == getName(baseType.name).text
               IN IF ~rest.ok THEN rest
                  ELSE IF baseMod.text # mod
                  THEN [ok |-> TRUE,
                        texts |-> <<baseMod.text \o "Types." \o nm>>
                                    \o rest.texts,
                        imports |-> AddAll(
                          <<"import type * as " \o baseMod.text
                              \o "Types from \"./" \o baseMod.text \o "\";">>,
                          rest.imports)]
                  ELSE [ok |-> TRUE, texts |-> <<nm>> \o rest.texts,
                        imports |-> rest.imports]

\* The fields of an interface: one per owned pointer, its target resolved
\* and projected.
RECURSIVE InterfaceFields(_, _, _)
InterfaceFields(ptrs, ts, mod) ==
  IF ptrs = <<>> THEN [ok |-> TRUE, fields |-> <<>>, imports |-> <<>>]
  ELSE LET ptr == ptrs[1]
       IN IF ~TypesHas(ts, ptr.target_id) THEN Fail(KeyError(ptr.target_id))
          ELSE LET trg == TypesGet(ts, ptr.target_id)
                   tsType == IF ptr.kind = "link"
                             THEN toJsObjectType(trg, ts, mod, 0)
                             ELSE toJsScalarType(trg, ts, mod, 0)
               IN IF ~tsType.ok THEN tsType
                  ELSE LET rest == InterfaceFields(Tail(ptrs), ts, mod)
                       IN IF ~rest.ok THEN rest
                          ELSE [ok |-> TRUE,
                                fields |->
                                  <<[name |-> ptr.name,
                                     desc |-> IF ptr.kind = "link"
                                              THEN "LinkDesc"
                                              ELSE "PropertyDesc",
                                     type |-> tsType.text,
                                     cardinality |-> toCardinality(ptr)]>>
                                  \o rest.fields,
                                imports |-> AddAll(tsType.imports,
                                                   rest.imports)]

\* The second loop of generateQB on one type: the interface of an object
\* type that is no union and no intersection, in __types__/<mod>.ts.
InterfaceRound(type, ts, d) ==
  IF type.kind # "object" \/ IsCompound(type) THEN Emitted(d)
  ELSE LET mod == getModule(type.name)
       IN IF ~mod.ok THEN mod
          ELSE LET bases == InterfaceBases(type.bases, ts, mod.text)
               IN IF ~bases.ok THEN bases
                  ELSE LET fields == InterfaceFields(type.pointers, ts,
                                                     mod.text)
                       IN IF ~fields.ok THEN fields
                          ELSE Emitted(Writeln(
                                 AddImports(d, TypesPath(mod.text),
                                   AddAll(AddAll(<<ReflectionImport>>,
                                                 bases.imports),
                                          fields.imports)),
                                 TypesPath(mod.text),
                                 [decl |-> "interface", of |-> type.id,
                                  name |-> snToIdent(getName(type.name).text),
                                  extends |-> bases.texts,
                                  fields |-> fields.fields]))

\* ------------------------------------------------------ the flattened spec

\* bm, as the statements before the third loop leave it.
SpecHeader(d) ==
  Writeln(AddImports(d, SpecPath, <<ReflectionImport>>), SpecPath,
          [decl |-> "spec_map", of |-> NoId])

\* ids resolved to names, or the first id the types do not hold.
RECURSIVE ResolveNames(_, _)
ResolveNames(ids, ts) ==
  IF ids = <<>> THEN [ok |-> TRUE, names |-> <<>>]
  ELSE IF ~TypesHas(ts, ids[1]) THEN Fail(KeyError(ids[1]))
  ELSE LET rest == ResolveNames(Tail(ids), ts)
       IN IF ~rest.ok THEN rest
          ELSE [ok |-> TRUE,
                names |-> <<FullName(TypesGet(ts, ids[1]).name)>>
                            \o rest.names]

\* The `properties` list of a spec entry.
SpecProperties(ptrs) ==
  LET props == SelectSeq(ptrs, LAMBDA ptr : ptr.kind = "property")
  IN [k \in 1..Len(props) |->
        [name |-> props[k].name, cardinality |-> toCardinality(props[k])]]

\* HasLinkProperties with the length test off by one.
HasLinkPropertiesOver(ptr) == Len(ptr.pointers) > 3

\* ptr.pointers && ptr.pointers.length > 2
HasLinkProperties(ptr) == Len(ptr.pointers) > 2

\* The nested `properties` list of a link in a spec entry.
LinkProperties(ptr) ==
  IF HasLinkProperties(ptr)
  THEN SpecProperties(SelectSeq(ptr.pointers,
         LAMBDA prop : prop.name # "source" /\ prop.name # "target"))
  ELSE <<>>

\* The `links` list of a spec entry: each link's target resolved to a name.
RECURSIVE SpecLinks(_, _)
SpecLinks(ptrs, ts) ==
  IF ptrs = <<>> THEN [ok |-> TRUE, links |-> <<>>]
  ELSE LET ptr == ptrs[1]
       IN IF ptr.kind # "link" THEN SpecLinks(Tail(ptrs), ts)
          ELSE IF ~TypesHas(ts, ptr.target_id)
          THEN Fail(KeyError(ptr.target_id))
          ELSE LET rest == SpecLinks(Tail(ptrs), ts)
               IN IF ~rest.ok THEN rest
                  ELSE [ok |-> TRUE,
                        links |->
                          <<[name |-> ptr.name,
                             cardinality |-> toCardinality(ptr),
                             target |->
                               FullName(TypesGet(ts, ptr.target_id).name),
                             properties |-> LinkProperties(ptr)]>>
                          \o rest.links]

\* The third loop of generateQB on one type: the spec entry of an object
\* type, in __spec__.ts.
SpecRound(type, ts, d) ==
  IF type.kind # "object" THEN Emitted(d)
  ELSE LET bases == ResolveNames(type.bases, ts)
       IN IF ~bases.ok THEN bases
          ELSE LET ancestors == ResolveNames(type.ancestors, ts)
               IN IF ~ancestors.ok THEN ancestors
                  ELSE LET links == SpecLinks(type.pointers, ts)
                       IN IF ~links.ok THEN links
                          ELSE Emitted(Writeln(d, SpecPath,
                                 [decl |-> "spec", of |-> type.id,
                                  name |-> FullName(type.name),
                                  bases |-> bases.names,
                                  ancestors |-> ancestors.names,
                                  properties |-> SpecProperties(type.pointers),
                                  links |-> links.links]))

\* ------------------------------------------------------- the type handles

HandleImports(mod) ==
  <<ReflectionImport,
    "import {spec as __spec__} from \"../__spec__\";",
    "import type * as __types__ from \"../__types__/" \o mod \o "\";">>

\* HandleRound without the test that passes over unions and intersections.
HandleRoundAll(type, d) ==
  IF type.kind # "object" THEN Emitted(d)
  ELSE LET mod == getModule(type.name)
       IN IF ~mod.ok THEN mod
          ELSE LET ident == snToIdent(getName(type.name).text)
               IN Emitted(Writeln(
                    AddImports(d, ModulesPath(mod.text),
                               HandleImports(mod.text)),
                    ModulesPath(mod.text),
                    [decl |-> "handle", of |-> type.id, ident |-> ident,
                     interface |-> "__types__." \o ident,
                     name |-> FullName(type.name)]))

\* The fourth loop of generateQB on one type: the runtime handle of an
\* object type that is no union and no intersection, in modules/<mod>.ts.
HandleRound(type, d) ==
  IF type.kind # "object" \/ IsCompound(type) THEN Emitted(d)
  ELSE LET mod == getModule(type.name)
       IN IF ~mod.ok THEN mod
          ELSE LET ident == snToIdent(getName(type.name).text)
               IN Emitted(Writeln(
                    AddImports(d, ModulesPath(mod.text),
                               HandleImports(mod.text)),
                    ModulesPath(mod.text),
                    [decl |-> "handle", of |-> type.id, ident |-> ident,
                     interface |-> "__types__." \o ident,
                     name |-> FullName(type.name)]))

\* -------------------------------------------------------------- the index

\* The module names of the model in the order Array.prototype.sort gives.
ModuleOrder == <<"default", "other", "std">>

SortedModules(mods) == SelectSeq(ModuleOrder, LAMBDA m : m \in mods)

\* index.ts: one re-export per module whose modules/<mod>.ts is not empty.
RECURSIVE IndexRounds(_, _)
IndexRounds(mods, d) ==
  IF mods = <<>> THEN d
  ELSE LET e == GetPath(d, ModulesPath(mods[1]))
       IN IndexRounds(Tail(mods),
            IF IsEmpty(e, ModulesPath(mods[1])) THEN e
            ELSE AddImports(e, IndexPath,
                   <<"export * as " \o mods[1] \o " from \"./modules/"
                       \o mods[1] \o "\";">>))

\* --------------------------------------------------------------- snapshots

Ids == 1..MaxTypes

\* The local name of the type with id k.
LocalName(k) == "T" \o ToString(k)

QName(k) == <<"default", LocalName(k)>>

\* The bases one type may list: none, or one id, a type of the snapshot or
\* the dangling id.
BaseChoices == {<<>>} \cup {<<a>> : a \in Ids \cup {AbsentId}}

\* Two bases, in ascending order of id.
BasePairs ==
  {<<ab[1], ab[2]>> :
     ab \in {x \in (Ids \cup {AbsentId}) \X (Ids \cup {AbsentId}) :
               x[1] < x[2]}}

\* The bases of a snapshot's types: each type has at most one base.
SingleBases == [Ids -> BaseChoices]

\* The bases of a snapshot's types: the first type may have two.
BaseMaps ==
  SingleBases \cup {[b EXCEPT ![1] = p] : b \in SingleBases, p \in BasePairs}

\* The ids reachable from id over the bases b in at most n steps.
RECURSIVE Reach(_, _, _)
Reach(S, b, n) ==
  IF n = 0 THEN S
  ELSE LET T == S
           U == T \cup UNION {Range(b[x]) : x \in T \cap DOMAIN b}
       IN IF U = T THEN T ELSE Reach(U, b, n - 1)

\* A set of numbers as the ascending list.
RECURSIVE Ascending(_)
Ascending(S) ==
  IF S = {} THEN <<>>
  ELSE LET m == CHOOSE x \in S : \A y \in S : x <= y
       IN <<m>> \o Ascending(S \ {m})

\* schema ancestors of id: its bases and theirs.
AncestorsOf(id, b) == Ascending(Reach(Range(b[id]), b, MaxTypes))

\* How a graph snapshot names its types: 0 gives every type a name of its
\* own, k > 1 gives type k the name of type 1.
NamePatterns == {0} \cup (2..MaxTypes)

PatternName(p, k) == IF p = k THEN QName(1) ELSE QName(k)

\* How a graph snapshot picks the kinds: all object types, or the last type
\* an array or a tuple, or all scalar types.
KindPatterns == {"objects", "array", "tuple", "scalars"}

GraphType(b, p, q, k) ==
  IF q = "array" /\ k = MaxTypes
    THEN ArrayType(k, <<"array<std", "str>">>, 1)
  ELSE IF q = "tuple" /\ k = MaxTypes
    THEN TupleType(k, <<"tuple<>">>, <<>>)
  ELSE IF q = "scalars"
    THEN ScalarType(k, PatternName(p, k), b[k], AncestorsOf(k, b), <<>>, NoId)
  ELSE ObjectType(k, PatternName(p, k), b[k], AncestorsOf(k, b),
                  <<>>, <<>>, <<>>)

GraphSnapshots ==
  {[k \in Ids |-> GraphType(b, 0, q, k)] : b \in BaseMaps, q \in KindPatterns}
  \cup
  {[k \in Ids |-> GraphType(b, p, "objects", k)] :
     b \in SingleBases, p \in NamePatterns}

\* A schema snapshot: two scalars, a base and a child object type, a
\* compound object type over them and one over that, an array and a tuple.
\* The query orders by name, so a child may come before its base.
\* Their ids lie past those of the graph snapshots and the dangling id.
StrId == AbsentId + 1
ColorId == AbsentId + 2
BaseId == AbsentId + 3
ChildId == AbsentId + 4
CompoundId == AbsentId + 5
ArrayId == AbsentId + 6
TupleId == AbsentId + 7
NestedId == AbsentId + 8
LonelyId == AbsentId + 9

Cards == {"One", "Many"} \X BOOLEAN

PropertyPointers ==
  {Pointer("p", "property", c[1], c[2], StrId, <<>>) : c \in Cards}
  \cup {Pointer("p", "property", "One", TRUE, t, <<>>) :
          t \in {ColorId, ArrayId, TupleId, AbsentId}}

\* The implicit sub-pointers of a link.
Implicit ==
  <<Pointer("source", "property", "One", TRUE, BaseId, <<>>),
    Pointer("target", "property", "One", TRUE, BaseId, <<>>)>>

Since(t) == Pointer("since", "property", "One", FALSE, t, <<>>)

Note == Pointer("note", "property", "Many", FALSE, StrId, <<>>)

\* A sub-pointer of a link that is itself a link.
Via == Pointer("via", "link", "One", FALSE, BaseId, <<>>)

LinkPropertyChoices ==
  {<<>>, Implicit, Implicit \o <<Since(StrId)>>,
   Implicit \o <<Since(AbsentId)>>, <<Since(StrId)>>,
   Implicit \o <<Since(StrId), Note>>, <<Since(StrId), Note, Implicit[1]>>,
   Implicit \o <<Via, Since(StrId)>>}

LinkPointers ==
  {Pointer("l", "link", "Many", FALSE, t, <<>>) :
     t \in {BaseId, ChildId, CompoundId, NestedId, AbsentId}}
  \cup {Pointer("l", "link", c[1], c[2], BaseId, n) :
          c \in Cards, n \in LinkPropertyChoices}

PointerChoices ==
  {<<>>} \cup {<<p>> : p \in PropertyPointers \cup LinkPointers}
  \cup {<<Pointer("p", "property", "One", TRUE, StrId, <<>>),
          Pointer("l", "link", "One", FALSE, t, Implicit \o <<Since(u)>>)>> :
          t \in {ChildId, AbsentId}, u \in {StrId, AbsentId}}

CompoundKinds == {"union", "intersection", "both"}

ColorKinds == {"enum", "derived", "dangling"}

\* How the type nothing refers to is named: well, or without a module, or
\* with two separators.
LonelyNames == {<<"default", "Lonely">>, <<"Lonely">>, <<"a", "b", "Lonely">>}

SchemaSnapshot(pb, pc_, pu, childMod, ckind, color, lonelyKind, lonely) ==
  <<ObjectType(CompoundId, <<"default", "Any">>, <<>>, <<>>,
               IF ckind = "intersection" THEN <<>> ELSE <<BaseId, ChildId>>,
               IF ckind = "union" THEN <<>> ELSE <<ChildId, BaseId>>, pu),
    ObjectType(ChildId, <<childMod, "Child">>, <<BaseId>>, <<BaseId>>,
               <<>>, <<>>, pc_),
    ObjectType(BaseId, <<"default", "Base">>, <<>>, <<>>, <<>>, <<>>, pb),
    ScalarType(StrId, <<"std", "str">>, <<>>, <<>>, <<>>, NoId),
    ScalarType(ColorId, <<"default", "Color">>, <<>>, <<>>,
               IF color = "enum" THEN <<"red", "dark-red">> ELSE <<>>,
               IF color = "enum" THEN NoId
               ELSE IF color = "derived" THEN StrId ELSE AbsentId),
    ArrayType(ArrayId, <<"array<std", "str>">>, StrId),
    TupleType(TupleId, <<"tuple<std", "str, default", "Color>">>,
              <<[name |-> "0", target_id |-> StrId],
                [name |-> "1", target_id |-> ColorId]>>),
    ObjectType(NestedId, <<"default", "Nested">>, <<>>, <<>>,
               <<CompoundId, BaseId>>, <<>>, <<>>),
    IF lonelyKind = "object"
    THEN ObjectType(LonelyId, lonely, <<>>, <<>>, <<>>, <<>>, <<>>)
    ELSE ScalarType(LonelyId, lonely, <<>>, <<>>, <<>>, NoId)>>

DefaultPointers == <<Pointer("p", "property", "One", TRUE, StrId, <<>>)>>

SchemaSnapshots ==
  {SchemaSnapshot(ps[1], ps[2], ps[3], m, ck, "enum", "object",
                  <<"default", "Lonely">>) :
     ps \in (PointerChoices \X {DefaultPointers} \X {<<>>})
            \cup ({DefaultPointers} \X PointerChoices \X {<<>>})
            \cup ({DefaultPointers} \X {<<>>} \X PointerChoices),
     m \in {"default", "other"}, ck \in CompoundKinds}
  \cup
  {SchemaSnapshot(<<p>>, <<>>, <<>>, "other", "union", c, lk, ln) :
     p \in {Pointer("p", "property", "One", TRUE, t, <<>>) :
              t \in {StrId, ColorId, TupleId}},
     c \in ColorKinds, lk \in {"object", "scalar"}, ln \in LonelyNames}

Snapshots == GraphSnapshots \cup SchemaSnapshots

VARIABLES
  types,      \* the introspected snapshot, in the order the query returns it
  pc,         \* where generateQB stands
  graph,      \* fetchTypes: id -> type
  adj,        \* fetchTypes: id -> its bases, in insertion order
  i,          \* the running loop's index
  visiting,   \* fetchTypes: names on the recursion stack, in insertion order
  visited,    \* fetchTypes: ids fully emitted
  sorted,     \* fetchTypes: the ids in the order sorted.set stored them
  stack,      \* the frames of visit: <<id, index of the next base>>
  call,       \* the id visit was just called with, 0 when none is pending
  err,        \* the error thrown, NoError when none
  dir,        \* generateQB: the DirBuilder, path -> buffer
  modsIndex,  \* generateQB: the modules seen
  closed,     \* whether con.close() ran
  disk,       \* what dir.write flushed, path -> buffer
  arg,        \* the arguments of the projection under test
  res         \* what it returned

VARIABLES
  options,           \* generateQueryFiles: params.options (file, watch, target)
  matches,           \* the .edgeql files getMatches found, in order
  task,              \* per match: where its async callback stands
  filesByExtension,  \* single-file mode: extension -> the merged file
  wasError,          \* single-file mode: whether a callback caught an error
  written,           \* what adapter.fs.writeFile wrote, path -> text
  log,               \* the paths an error was reported for, in order
  main               \* where generateQueryFiles itself stands

fnVars == <<arg, res>>

queryVars ==
  <<options, matches, task, filesByExtension, wasError, written, log, main>>

\* generateQueryFiles is not running.
QueryIdle ==
  /\ options = [file |-> "", watch |-> FALSE, target |-> "ts"]
  /\ matches = <<>>
  /\ task = <<>>
  /\ filesByExtension = <<>>
  /\ wasError = FALSE
  /\ written = <<>>
  /\ log = <<>>
  /\ main = [pc |-> "idle", left |-> <<>>]

fetchVars == <<graph, adj, visiting, visited, sorted, stack, call>>

outVars == <<dir, modsIndex, closed, disk>>

vars == <<types, pc, i, err, fetchVars, outVars, fnVars, queryVars>>

\* ------------------------------------------------------------ fetchTypes

NoCall == [kind |-> "none"]

\* for (const type of types) graph.set(type.id, type)
BuildGraph ==
  /\ pc = "graph"
  /\ graph' = [id \in {types[k].id : k \in 1..Len(types)} |->
                 LET last == CHOOSE k \in 1..Len(types) :
                       /\ types[k].id = id
                       /\ \A m \in (k + 1)..Len(types) : types[m].id # id
                 IN types[last]]
  /\ pc' = "adj"
  /\ i' = 1
  /\ UNCHANGED <<fnVars, queryVars,
               types, adj, visiting, visited, sorted, stack, call,
               err, outVars>>

\* The index of the first base of bs that graph does not hold, 0 when all
\* are known.
FirstUnknown(bs) ==
  LET bad == {k \in 1..Len(bs) : bs[k] \notin DOMAIN graph}
  IN IF bad = {} THEN 0 ELSE CHOOSE k \in bad : \A m \in bad : k <= m

\* BuildAdj that passes over an unknown base instead of throwing.
BuildAdjSkipUnknown ==
  /\ pc = "adj"
  /\ IF i > Len(types)
     THEN /\ pc' = "sort"
          /\ i' = 1
          /\ UNCHANGED adj
     ELSE LET type == types[i]
              known == SelectSeq(type.bases, LAMBDA b : b \in DOMAIN graph)
          IN /\ i' = i + 1
             /\ adj' = IF type.kind \notin {"object", "scalar"} \/ known = <<>>
                       THEN adj
                       ELSE (type.id :> AddAll(<<>>, known)) @@ adj
             /\ UNCHANGED pc
  /\ UNCHANGED <<fnVars, queryVars,
               types, graph, visiting, visited, sorted, stack, call,
               err, outVars>>

\* One round of the loop that fills adj and rejects an unknown base.
BuildAdj ==
  /\ pc = "adj"
  /\ IF i > Len(types)
     THEN /\ pc' = "sort"
          /\ i' = 1
          /\ UNCHANGED <<adj, err>>
     ELSE LET type == types[i]
              bad == FirstUnknown(type.bases)
          IN IF type.kind # "object" /\ type.kind # "scalar"
             THEN /\ i' = i + 1
                  /\ UNCHANGED <<pc, adj, err>>
             ELSE IF bad # 0
             THEN /\ err' = UnknownTypeError(type.bases[bad])
                  /\ pc' = "throwing"
                  \* the bases before the unknown one were added
                  /\ adj' = IF bad = 1 THEN adj
                            ELSE (type.id :> AddAll(
                                    IF type.id \in DOMAIN adj
                                    THEN adj[type.id] ELSE <<>>,
                                    SubSeq(type.bases, 1, bad - 1))) @@ adj
                  /\ UNCHANGED i
             ELSE /\ adj' = IF type.bases = <<>> THEN adj
                            ELSE (type.id :> AddAll(
                                    IF type.id \in DOMAIN adj
                                    THEN adj[type.id] ELSE <<>>,
                                    type.bases)) @@ adj
                  /\ i' = i + 1
                  /\ UNCHANGED <<pc, err>>
  /\ UNCHANGED <<fnVars, queryVars,
               types, graph, visiting, visited, sorted, stack, call,
               outVars>>

\* for (const type of types) visit(type); return sorted
SortLoop ==
  /\ pc = "sort"
  /\ call = NoCall
  /\ stack = <<>>
  /\ IF i <= Len(types)
     THEN /\ call' = types[i]
          /\ i' = i + 1
          /\ UNCHANGED pc
     ELSE /\ pc' = "enums"
          /\ i' = 1
          /\ UNCHANGED call
  /\ UNCHANGED <<fnVars, queryVars,
               types, graph, adj, visiting, visited, sorted, stack,
               err, outVars>>

\* The element of visiting the cycle error names beside the type.
CycleLast(v) == Slice(v, 1, 2)

\* MapSet that puts a new key first.
MapSetFront(m, type) ==
  IF \E k \in 1..Len(m) : m[k].id = type.id
  THEN [k \in 1..Len(m) |-> IF m[k].id = type.id THEN type ELSE m[k]]
  ELSE <<type>> \o m

\* sorted.set(type.id, type): a Map keeps a key's first position.
MapSet(m, type) ==
  IF \E k \in 1..Len(m) : m[k].id = type.id
  THEN [k \in 1..Len(m) |-> IF m[k].id = type.id THEN type ELSE m[k]]
  ELSE Append(m, type)

\* VisitEnter that returns from a type on the recursion stack as it does
\* from a visited one.
VisitEnterForgiving ==
  /\ pc = "sort"
  /\ call # NoCall
  /\ IF Contains(visiting, call.name) \/ call.id \in visited
     THEN /\ call' = NoCall
          /\ UNCHANGED <<visiting, stack>>
     ELSE /\ visiting' = SetAdd(visiting, call.name)
          /\ stack' = Append(stack, [type |-> call, k |-> 1])
          /\ call' = NoCall
  /\ UNCHANGED <<fnVars, queryVars,
               types, graph, adj, i, visited, sorted, outVars, err,
               pc>>

\* visit(type) is entered: the cycle test, the visited test, the push.
VisitEnter ==
  /\ pc = "sort"
  /\ call # NoCall
  /\ IF Contains(visiting, call.name)
     THEN /\ err' = CycleError(call.name, CycleLast(visiting))
          /\ pc' = "throwing"
          /\ UNCHANGED <<visiting, stack, call>>
     ELSE IF call.id \in visited
     THEN /\ call' = NoCall
          /\ UNCHANGED <<visiting, stack, err, pc>>
     ELSE /\ visiting' = SetAdd(visiting, call.name)
          /\ stack' = Append(stack, [type |-> call, k |-> 1])
          /\ call' = NoCall
          /\ UNCHANGED <<err, pc>>
  /\ UNCHANGED <<fnVars, queryVars,
               types, graph, adj, i, visited, sorted, outVars>>

\* VisitStep that stores the type without visiting its bases.
VisitStepNoBases ==
  /\ pc = "sort"
  /\ call = NoCall
  /\ stack # <<>>
  /\ LET top == stack[Len(stack)]
     IN /\ sorted' = MapSet(sorted, top.type)
        /\ visited' = visited \cup {top.type.id}
        /\ visiting' = SetDelete(visiting, top.type.name)
        /\ stack' = SubSeq(stack, 1, Len(stack) - 1)
  /\ UNCHANGED <<fnVars, queryVars,
               types, graph, adj, i, pc, err, outVars, call>>

\* The body of visit(type) goes on: the next base is visited, or the type
\* is stored in sorted and visit returns.
VisitStep ==
  /\ pc = "sort"
  /\ call = NoCall
  /\ stack # <<>>
  /\ LET top == stack[Len(stack)]
         bs == IF top.type.id \in DOMAIN adj THEN adj[top.type.id] ELSE <<>>
     IN IF top.k <= Len(bs)
        THEN /\ call' = graph[bs[top.k]]
             /\ stack' = [stack EXCEPT ![Len(stack)].k = top.k + 1]
             /\ UNCHANGED <<sorted, visited, visiting>>
        ELSE /\ sorted' = MapSet(sorted, top.type)
             /\ visited' = visited \cup {top.type.id}
             /\ visiting' = SetDelete(visiting, top.type.name)
             /\ stack' = SubSeq(stack, 1, Len(stack) - 1)
             /\ UNCHANGED call
  /\ UNCHANGED <<fnVars, queryVars, types, graph, adj, i, pc, err, outVars>>

\* ------------------------------------------------------------ generateQB

\* One round of the loop pc names over types.values(), or its end.
LoopStep(at, round, after, afterDir) ==
  /\ pc = at
  /\ IF i > Len(sorted)
     THEN /\ pc' = after
          /\ i' = 1
          /\ dir' = afterDir
          /\ UNCHANGED err
     ELSE IF round.ok
     THEN /\ dir' = round.dir
          /\ i' = i + 1
          /\ UNCHANGED <<pc, err>>
     ELSE /\ err' = round.err
          /\ pc' = "throwing"
          /\ UNCHANGED <<dir, i>>
  /\ UNCHANGED <<fnVars, queryVars, types, fetchVars, closed, disk>>

EnumStep ==
  /\ LoopStep("enums", EnumRound(sorted[i], dir), "ifaces", dir)
  /\ modsIndex' =
       IF /\ i <= Len(sorted)
          /\ sorted[i].kind \in {"scalar", "object"}
          /\ getModule(sorted[i].name).ok
       THEN modsIndex \cup {getModule(sorted[i].name).text}
       ELSE modsIndex

InterfaceStep ==
  /\ LoopStep("ifaces", InterfaceRound(sorted[i], sorted, dir), "spec",
              SpecHeader(dir))
  /\ UNCHANGED modsIndex

SpecStep ==
  /\ LoopStep("spec", SpecRound(sorted[i], sorted, dir), "handles", dir)
  /\ UNCHANGED modsIndex

HandleStep ==
  /\ LoopStep("handles", HandleRound(sorted[i], dir), "index", dir)
  /\ UNCHANGED modsIndex

IndexStep ==
  /\ pc = "index"
  /\ dir' = IndexRounds(SortedModules(modsIndex), GetPath(dir, IndexPath))
  /\ pc' = "finally"
  /\ UNCHANGED <<fnVars, queryVars,
               types, i, err, fetchVars, modsIndex, closed, disk>>

\* Finally that goes on to dir.write whether or not the try block threw.
FinallyWrites ==
  /\ pc \in {"finally", "throwing"}
  /\ closed' = TRUE
  /\ pc' = "write"
  /\ UNCHANGED <<fnVars, queryVars,
               types, i, err, fetchVars, dir, modsIndex, disk>>

\* finally { await con.close(); }: on the way out of the try block, thrown
\* out of or left at its end.
Finally ==
  /\ pc \in {"finally", "throwing"}
  /\ closed' = TRUE
  /\ pc' = IF pc = "finally" THEN "write" ELSE "failed"
  /\ UNCHANGED <<fnVars, queryVars,
               types, i, err, fetchVars, dir, modsIndex, disk>>

\* dir.write(to)
Write ==
  /\ pc = "write"
  /\ disk' = dir
  /\ pc' = "done"
  /\ UNCHANGED <<fnVars, queryVars,
               types, i, err, fetchVars, dir, modsIndex, closed>>

\* ------------------------------------------------------------ the machine

NoArg == [fn |-> "none"]

NoResult == [done |-> FALSE]

Init ==
  /\ types \in Snapshots
  /\ pc = "graph"
  /\ graph = <<>>
  /\ adj = <<>>
  /\ i = 1
  /\ visiting = <<>>
  /\ visited = {}
  /\ sorted = <<>>
  /\ stack = <<>>
  /\ call = NoCall
  /\ err = NoError
  /\ dir = <<>>
  /\ modsIndex = {}
  /\ closed = FALSE
  /\ disk = <<>>
  /\ arg = NoArg
  /\ res = NoResult
  /\ QueryIdle

Next ==
  \/ BuildGraph
  \/ BuildAdj
  \/ SortLoop
  \/ VisitEnter
  \/ VisitStep
  \/ EnumStep
  \/ InterfaceStep
  \/ SpecStep
  \/ HandleStep
  \/ IndexStep
  \/ Finally
  \/ Write

Spec == Init /\ [][Next]_vars

\* ------------------------------------------------ the projections, applied

\* Nesting depths toJsObjectType is applied at: 0..MaxLevel.
MaxLevel == 2

pipeVars == <<types, pc, i, err, fetchVars, outVars, queryVars>>

\* generateQB is not running.
PipeIdle ==
  /\ types = <<>>
  /\ pc = "idle"
  /\ graph = <<>>
  /\ adj = <<>>
  /\ i = 1
  /\ visiting = <<>>
  /\ visited = {}
  /\ sorted = <<>>
  /\ stack = <<>>
  /\ call = NoCall
  /\ err = NoError
  /\ dir = <<>>
  /\ modsIndex = {}
  /\ closed = FALSE
  /\ disk = <<>>

\* Neither generateQB nor generateQueryFiles is running.
Idle == PipeIdle /\ QueryIdle

\* The pointers toCardinality is applied to.
CardPointers ==
  {Pointer(n, k, c[1], c[2], t, ps) :
     n \in {"p", "l", "since"}, k \in {"link", "property"}, c \in Cards,
     t \in {StrId, BaseId, AbsentId}, ps \in {<<>>, Implicit}}

InitCard ==
  /\ Idle
  /\ arg \in {[fn |-> "toCardinality", p |-> ptr] : ptr \in CardPointers}
  /\ res = NoResult

ApplyToCardinality ==
  /\ arg.fn = "toCardinality"
  /\ ~res.done
  /\ res' = [done |-> TRUE, val |-> toCardinality(arg.p)]
  /\ UNCHANGED <<arg, pipeVars>>

SpecCard == InitCard /\ [][ApplyToCardinality]_vars

\* The snapshots toJsObjectType is applied in.
ObjSnapshots ==
  {SchemaSnapshot(<<>>, <<>>, <<>>, m, ck, "enum", "object",
                  <<"default", "Lonely">>) :
     m \in {"default", "other"}, ck \in CompoundKinds}

\* type with another name, other bases and other pointers of its own.
Disguised(type) ==
  [type EXCEPT !.name = <<"Renamed">>, !.bases = <<BaseId>>,
               !.pointers = DefaultPointers]

\* type with its last member replaced by the dangling id.
Dangling(type) ==
  [type EXCEPT
     !.union_of = IF @ = <<>> THEN @ ELSE [@ EXCEPT ![Len(@)] = AbsentId],
     !.intersection_of = IF type.union_of # <<>> \/ @ = <<>> THEN @
                         ELSE [@ EXCEPT ![Len(@)] = AbsentId]]

\* The object types of the snapshot ts, each as it is, disguised and
\* dangling.
ObjTypes(ts) ==
  UNION {IF ts[k].kind # "object" THEN {}
         ELSE {ts[k], Disguised(ts[k]), Dangling(ts[k])} : k \in 1..Len(ts)}

ObjArgs ==
  UNION {{[fn |-> "toJsObjectType", type |-> t, ts |-> ts, currentMod |-> m,
           level |-> l] :
            t \in ObjTypes(ts), m \in {"default", "other"},
            l \in 0..MaxLevel} : ts \in ObjSnapshots}

InitObj ==
  /\ Idle
  /\ arg \in ObjArgs
  /\ res = NoResult

ApplyToJsObjectType ==
  /\ arg.fn = "toJsObjectType"
  /\ ~res.done
  /\ res' = [done |-> TRUE,
             val |-> toJsObjectType(arg.type, arg.ts, arg.currentMod,
                                    arg.level)]
  /\ UNCHANGED <<arg, pipeVars>>

SpecObj == InitObj /\ [][ApplyToJsObjectType]_vars

\* -------------------------------------------------- what the claims speak of

TypeIds == {types[k].id : k \in 1..Len(types)}

TypeOf(id) == types[CHOOSE k \in 1..Len(types) : types[k].id = id]

\* The base relation: the direct bases of the scalar and object types.
BasesOf(id) ==
  IF id \in TypeIds /\ TypeOf(id).kind \in {"scalar", "object"}
  THEN Range(TypeOf(id).bases) ELSE {}

\* The ids reachable from the ids S over at least one base edge.
RECURSIVE BaseClosure(_, _)
BaseClosure(S, n) ==
  IF n = 0 THEN S
  ELSE LET T == S
           U == T \cup UNION {BasesOf(x) : x \in T}
       IN IF U = T THEN T ELSE BaseClosure(U, n - 1)

TransitiveBases(id) == BaseClosure(BasesOf(id), Len(types))

Cyclic == \E id \in TypeIds : id \in TransitiveBases(id)

\* Every base id of a scalar or object type is a type of the snapshot.
Resolved == \A id \in TypeIds : BasesOf(id) \subseteq TypeIds

\* No type carries the name of one of its direct or transitive bases.
NoNameOnBaseChain ==
  \A id \in TypeIds : \A b \in TransitiveBases(id) \cap TypeIds :
    b # id => TypeOf(b).name # TypeOf(id).name

\* fetchTypes has returned sorted.
SortReturned ==
  /\ pc \notin {"graph", "adj", "sort"}
  /\ err.kind \notin {"unknown_type", "cycle"}

SortFailed == err.kind \in {"unknown_type", "cycle"}

\* sorted holds every input type exactly once.
ExactlyOnce ==
  /\ Len(sorted) = Len(types)
  /\ \A k \in 1..Len(types) :
       Cardinality({j \in 1..Len(sorted) : sorted[j] = types[k]}) = 1

\* In sorted, every direct base of a scalar or object type stands before it.
BasesEarlier ==
  \A j \in 1..Len(sorted) :
    sorted[j].kind \in {"scalar", "object"} =>
      \A b \in Range(sorted[j].bases) :
        \E m \in 1..(j - 1) : sorted[m].id = b

\* C1 as claimed: on every snapshot whose base relation is acyclic and whose
\* base ids all resolve, the sort returns, and the sequence it returns holds
\* each input type exactly once with every direct base of a scalar or object
\* type strictly before the type.
C1_Original ==
  /\ SortFailed => (Cyclic \/ ~Resolved)
  /\ SortReturned => (ExactlyOnce /\ BasesEarlier) \/ Cyclic \/ ~Resolved

\* C1 as amended: the same, on the snapshots in which moreover no type
\* carries the name of one of its direct or transitive bases (the recursion
\* stack is kept by name).
C1_SortedOrder ==
  /\ SortFailed => (Cyclic \/ ~Resolved \/ ~NoNameOnBaseChain)
  /\ SortReturned =>
       \/ ExactlyOnce /\ BasesEarlier
       \/ Cyclic \/ ~Resolved \/ ~NoNameOnBaseChain

\* C1's case: the sort has returned on an acyclic snapshot whose first type
\* has two bases, so the order returned differs from the order given.
C1_Witness ==
  /\ SortReturned
  /\ ~Cyclic /\ Resolved /\ NoNameOnBaseChain
  /\ Len(types[1].bases) = 2
  /\ types[1].kind = "object"
  /\ sorted[1] # types[1]
  /\ \E k \in 1..Len(types) : types[k].kind = "array"

\* The ids on the recursion stack of visit, innermost last.
StackIds == [k \in 1..Len(stack) |-> stack[k].type.id]

\* No type is on the recursion stack twice, and every type on it is in
\* visiting, so that visit throws when it is called with one of them.
StackSound ==
  /\ \A j, k \in 1..Len(stack) : StackIds[j] = StackIds[k] => j = k
  /\ \A k \in 1..Len(stack) : Contains(visiting, stack[k].type.name)

\* adj.get(id).size, 0 when adj holds no entry
AdjSize(id) == IF id \in DOMAIN adj THEN Len(adj[id]) ELSE 0

RECURSIVE Sum(_, _)
Sum(f, S) ==
  IF S = {} THEN 0
  ELSE LET x == CHOOSE y \in S : TRUE IN f[x] + Sum(f, S \ {x})

\* A bound on the steps the sort has yet to take: two for each round of
\* the outer loop to come, one for a pending call, and for each type not
\* yet visited one for its return and two for each base it has yet to
\* visit.
SortMeasure ==
  IF pc # "sort" THEN 0
  ELSE LET onStack == Range(StackIds)
           waiting == (DOMAIN graph \ visited) \ onStack
       IN 1 + 2 * (Len(types) + 1 - i)
            + (IF call = NoCall THEN 0 ELSE 1)
            + Sum([id \in waiting |-> 2 * AdjSize(id) + 1], waiting)
            + Sum([k \in 1..Len(stack) |->
                     2 * (AdjSize(stack[k].type.id) + 1 - stack[k].k) + 1],
                  1..Len(stack))

C2_Safe ==
  \/ pc \in {"graph", "adj"}
  \/ /\ ~SortReturned
     /\ StackSound
     /\ Len(stack) <= Len(types)
     /\ err.kind \in {"none", "cycle"}
     /\ pc \in {"sort", "throwing", "failed"}
     /\ pc = "failed" \/ ENABLED Next
     /\ \A k \in 1..Len(sorted) :
          sorted[k].id \notin TransitiveBases(sorted[k].id)
  \/ ~Cyclic
  \/ ~Resolved

\* C2: on a snapshot whose base relation holds a cycle (and whose bases all
\* resolve, so that the sort is reached) the sort never returns a sequence:
\* a type on the recursion stack is never pushed again (visit throws when
\* it meets one), no type of a cycle is stored in sorted, the recursion is
\* never deeper than the number of types, every step of the sort lowers
\* the bound on the steps left, and the run can only go on until it has
\* failed with the dependency-cycle error.
C2_CycleFails ==
  [][/\ C2_Safe
     /\ C2_Safe'
     /\ pc = "sort" => (SortMeasure' < SortMeasure /\ SortMeasure' >= 0)]_vars

\* C2's case: the cycle error was thrown for a cycle that is only reached
\* through a type outside it, three frames deep.
C2_Witness ==
  /\ pc = "failed"
  /\ err.kind = "cycle"
  /\ Len(stack) = 3
  /\ stack[1].type.id \notin TransitiveBases(stack[1].type.id)

\* C3 as claimed: the cycle error names the re-encountered type and, when
\* another type is on the recursion stack, one that differs from it and is
\* on the stack.
C3_Original ==
  (err.kind = "cycle" /\ Len(visiting) >= 2) =>
    \E k \in 1..Len(err.last) :
      /\ err.last[k] # err.name
      /\ Contains(visiting, err.last[k])

\* C4: on a snapshot in which a scalar or object type lists a base id the
\* snapshot does not hold, fetchTypes never enters the sort: until it
\* throws nothing is visited or stored in sorted, and what it throws is the
\* unknown-type error for an id the snapshot does not hold, not the cycle
\* error, with nothing emitted or written.
C4_UnknownBase ==
  \/ /\ pc \in {"graph", "adj"}
     /\ err = NoError
     /\ sorted = <<>> /\ visited = {} /\ visiting = <<>>
     /\ stack = <<>> /\ call = NoCall
  \/ /\ pc \in {"throwing", "failed"}
     /\ err.kind = "unknown_type"
     /\ err.id \notin TypeIds
     /\ sorted = <<>> /\ visited = {} /\ visiting = <<>>
     /\ stack = <<>> /\ call = NoCall
     /\ dir = <<>> /\ disk = <<>>
  \/ Resolved

\* C4's case: the unknown-type error was thrown on a snapshot that also
\* holds a base cycle.
C4_Witness ==
  /\ pc = "failed"
  /\ err.kind = "unknown_type"
  /\ Cyclic
  /\ ~Resolved

\* Some pointer, a link's own sub-pointers included, targets an id the
\* snapshot does not hold.
DanglingPointer ==
  \E k \in 1..Len(types) : \E n \in 1..Len(types[k].pointers) :
    LET ptr == types[k].pointers[n]
    IN \/ ptr.target_id \notin TypeIds
       \/ \E m \in 1..Len(ptr.pointers) :
            ptr.pointers[m].target_id \notin TypeIds

\* C5 as claimed: on a snapshot in which some pointer (a link or a property,
\* of a plain or a compound object type, or a sub-pointer of a link) targets
\* an id the snapshot does not hold, generateQB does not complete: it never
\* gets to dir.write.
C5_Original == pc \in {"write", "done"} => ~DanglingPointer

\* Some scalar or object type's name is not <module>::<local name>.
MalformedName ==
  \E k \in 1..Len(types) :
    types[k].kind \in {"scalar", "object"} /\ Len(types[k].name) # 2

HasDecl(d, path, decl, id) ==
  /\ path \in DOMAIN d
  /\ \E n \in 1..Len(d[path].lines) :
       d[path].lines[n].decl = decl /\ d[path].lines[n].of = id

\* Every enum, interface, spec entry and type handle of the snapshot and
\* the index are in the buffers d.
AllBuilt(d) ==
  /\ IndexPath \in DOMAIN d
  /\ \A k \in 1..Len(types) :
       LET t == types[k]
       IN /\ t.kind = "object" => HasDecl(d, SpecPath, "spec", t.id)
          /\ (t.kind = "object" /\ ~IsCompound(t)) =>
               /\ HasDecl(d, TypesPath(t.name[1]), "interface", t.id)
               /\ HasDecl(d, ModulesPath(t.name[1]), "handle", t.id)
               /\ Contains(d[IndexPath].imports,
                    "export * as " \o t.name[1] \o " from \"./modules/"
                      \o t.name[1] \o "\";")
          /\ (t.kind = "scalar" /\ t.enum_values # <<>>) =>
               HasDecl(d, ModulesPath(t.name[1]), "enum", t.id)

\* C6: once generateQB has thrown (an unknown base, a dependency cycle, a
\* missing key, a malformed name) nothing is ever written: dir.write runs
\* only in a run that threw nothing, after every enum, interface, spec
\* entry, type handle and the index were built, and it writes just them.
\* A snapshot with a malformed scalar or object type name never gets past
\* the first loop.
C6_NoPartialWrite ==
  /\ err # NoError => (disk = <<>> /\ pc \in {"throwing", "failed"})
  /\ pc \in {"throwing", "failed"} => (err # NoError /\ disk = <<>>)
  /\ pc \in {"write", "done"} => (err = NoError /\ closed /\ AllBuilt(dir))
  /\ disk # <<>> => (pc = "done" /\ disk = dir)
  /\ pc \in {"ifaces", "spec", "handles", "index", "finally", "write", "done"}
       => ~MalformedName

\* C6's case: a type that nothing refers to has a name without a module,
\* generateQB threw on it after an enum was built, and nothing was written.
C6_Witness ==
  /\ pc = "failed"
  /\ err.kind = "invalid_name"
  /\ err.name = <<"Lonely">>
  /\ dir # <<>>
  /\ disk = <<>>

\* In the buffer b, a declaration written for a type stands after the
\* declaration of the same sort written for any of its direct bases.
BasesDeclaredFirst(b) ==
  \A j, m \in 1..Len(b.lines) :
    (/\ b.lines[j].decl \in {"interface", "spec", "handle"}
     /\ b.lines[m].decl = b.lines[j].decl
     /\ b.lines[m].of \in BasesOf(b.lines[j].of)) => m < j

\* C8: in every buffer, at every moment of the emission and in what is
\* written, the interface, the spec entry and the type handle of an object
\* type stand after the interface, the spec entry and the type handle of
\* each of its direct bases in that buffer.
C8_DependencyOrder ==
  /\ \A path \in DOMAIN dir : BasesDeclaredFirst(dir[path])
  /\ \A path \in DOMAIN disk : BasesDeclaredFirst(disk[path])

\* C8's case: the files are written, and a buffer holds the interface of a
\* type and of its base, which the snapshot lists after the type.
C8_Witness ==
  /\ pc = "done"
  /\ \E path \in DOMAIN disk : \E j, m \in 1..Len(disk[path].lines) :
       /\ disk[path].lines[j].decl = "interface"
       /\ disk[path].lines[m].decl = "interface"
       /\ disk[path].lines[m].of \in BasesOf(disk[path].lines[j].of)
       /\ \E a, b \in 1..Len(types) :
            /\ a < b
            /\ types[a].id = disk[path].lines[j].of
            /\ types[b].id = disk[path].lines[m].of

\* The four names of the derived cardinality.
CardinalityTable(cardinality, required) ==
  CASE cardinality = "One" /\ required -> "One"
    [] cardinality = "One" /\ ~required -> "AtMostOne"
    [] cardinality = "Many" /\ required -> "AtLeastOne"
    [] cardinality = "Many" /\ ~required -> "Many"

\* C9: toCardinality gives (One, required) One, (One, optional) AtMostOne,
\* (Many, required) AtLeastOne and (Many, optional) Many, and gives every
\* pointer with the same cardinality and required flag the same name,
\* whatever its name, kind, target and sub-pointers.
C9_Cardinality ==
  (res.done /\ arg.fn = "toCardinality") =>
    /\ res.val = CardinalityTable(arg.p.cardinality, arg.p.required)
    /\ \A q \in CardPointers :
         (q.cardinality = arg.p.cardinality /\ q.required = arg.p.required)
           => toCardinality(q) = res.val

\* C9's case: toCardinality was applied to a required multi link with
\* sub-pointers.
C9_Witness ==
  /\ res.done
  /\ arg.fn = "toCardinality"
  /\ arg.p.cardinality = "Many" /\ arg.p.required
  /\ arg.p.kind = "link" /\ arg.p.pointers # <<>>
  /\ res.val = "AtLeastOne"

\* The projections of the union members of the type under test, each at
\* one level deeper.
UnionMember(k) ==
  toJsObjectType(TypesGet(arg.ts, arg.type.union_of[k]), arg.ts,
                 arg.currentMod, arg.level + 1)

UnionMembersOk ==
  \A k \in 1..Len(arg.type.union_of) :
    TypesHas(arg.ts, arg.type.union_of[k]) /\ UnionMember(k).ok

\* The result is the members' projections in union_of order joined by
\* " | ", in parentheses exactly when level > 0, with their imports; it
\* throws when a member is missing or throws; and the same type under
\* another name, with other bases and pointers, projects to the same.
PurelyUnion ==
  /\ res.val.ok = UnionMembersOk
  /\ res.val.ok =>
       LET texts == [k \in 1..Len(arg.type.union_of) |-> UnionMember(k).text]
           joined == Join(texts, " | ")
       IN /\ res.val.text = IF arg.level > 0 THEN "(" \o joined \o ")"
                            ELSE joined
          /\ \A k \in 1..Len(texts) :
               Range(UnionMember(k).imports) \subseteq Range(res.val.imports)
          /\ \A imp \in Range(res.val.imports) :
               \E k \in 1..Len(texts) : Contains(UnionMember(k).imports, imp)
  /\ toJsObjectType(Disguised(arg.type), arg.ts, arg.currentMod, arg.level)
       = res.val

\* C10 as claimed: projecting an object type with non-empty union_of yields
\* purely the union of its members' projections.
C10_Original ==
  (res.done /\ arg.fn = "toJsObjectType" /\ arg.type.union_of # <<>>)
    => PurelyUnion

\* C10 as amended: projecting an object type with non-empty union_of and
\* empty intersection_of yields purely the union of its members'
\* projections (intersection_of, when not empty, is what is projected).
C10_UnionProjection ==
  (/\ res.done
   /\ arg.fn = "toJsObjectType"
   /\ arg.type.union_of # <<>>
   /\ arg.type.intersection_of = <<>>) => PurelyUnion

\* C10's case: a union with a member that is itself a union was projected
\* below the top level, from another module than a member's.
C10_Witness ==
  /\ res.done
  /\ arg.fn = "toJsObjectType"
  /\ arg.type.union_of = <<CompoundId, BaseId>>
  /\ arg.type.intersection_of = <<>>
  /\ TypesGet(arg.ts, CompoundId).intersection_of = <<>>
  /\ arg.level > 0
  /\ arg.currentMod = "other"
  /\ res.val.ok
  /\ res.val.imports # <<>>

\* ------------------------------------------------------- tuples, projected

\* The longest tuple toJsScalarType is applied to.
MaxElements == 2

\* Element names: none, positions, a name with leading digits, plain names.
ElementNames == {"", "0", "1st", "a", "x1"}

TupleElements ==
  {[name |-> n, target_id |-> t] :
     n \in ElementNames, t \in {StrId, ColorId, TupleId}}

\* The tuple types toJsScalarType is applied to.
TupleTypes ==
  {TupleType(LonelyId, <<"tuple<>">>, els) :
     els \in UNION {[1..n -> TupleElements] : n \in 0..MaxElements}}

TupleArgs ==
  {[fn |-> "toJsScalarType", type |-> t,
    ts |-> SchemaSnapshot(<<>>, <<>>, <<>>, "default", "union", "enum",
                          "object", <<"default", "Lonely">>),
    currentModule |-> "default", level |-> 0] : t \in TupleTypes}

InitTuple ==
  /\ Idle
  /\ arg \in TupleArgs
  /\ res = NoResult

ApplyToJsScalarType ==
  /\ arg.fn = "toJsScalarType"
  /\ ~res.done
  /\ res' = [done |-> TRUE,
             val |-> toJsScalarType(arg.type, arg.ts, arg.currentModule,
                                    arg.level)]
  /\ UNCHANGED <<arg, pipeVars>>

SpecTuple == InitTuple /\ [][ApplyToJsScalarType]_vars

\* A name that starts with a digit reads as a number.
NumericParseable(name) == name \in {"0", "1", "2", "1st"}

\* The projection of the element el of the tuple under test.
ElementText(el) ==
  toJsScalarType(TypesGet(arg.ts, el.target_id), arg.ts, arg.currentModule,
                 arg.level + 1).text

\* What the tuple type t projects to, by the first element's name alone.
TupleText(t) ==
  LET els == t.tuple_elements
  IN IF els = <<>> THEN "[]"
     ELSE IF els[1].name # "" /\ ~NumericParseable(els[1].name)
     THEN "{" \o Join([k \in 1..Len(els) |->
                         els[k].name \o ": " \o ElementText(els[k])], ",")
              \o "}"
     ELSE "[" \o Join([k \in 1..Len(els) |-> ElementText(els[k])], ",")
              \o "]"

\* t with every element but the first named n.
OthersNamed(t, n) ==
  [t EXCEPT !.tuple_elements =
     [k \in 1..Len(@) |-> IF k = 1 THEN @[k] ELSE [@[k] EXCEPT !.name = n]]]

\* C11: an empty tuple projects to []; a tuple whose first element's name is
\* not empty and does not read as a number projects to the record of its
\* `name: type` entries; any other tuple, one whose first name is "0"
\* included, projects to the sequence of its element projections in order;
\* and however the other elements are named, the same branch is taken.
C11_TupleProjection ==
  (res.done /\ arg.fn = "toJsScalarType" /\ arg.type.kind = "tuple") =>
    /\ res.val.ok
    /\ res.val.text = TupleText(arg.type)
    /\ \A n \in ElementNames :
         LET t == OthersNamed(arg.type, n)
         IN toJsScalarType(t, arg.ts, arg.currentModule, arg.level).text
              = TupleText(t)

\* C11's case: a tuple whose first element is named "0" and whose second
\* has a plain name was projected, as a sequence.
C11_Witness ==
  /\ res.done
  /\ arg.fn = "toJsScalarType"
  /\ Len(arg.type.tuple_elements) = 2
  /\ arg.type.tuple_elements[1] = [name |-> "0", target_id |-> StrId]
  /\ arg.type.tuple_elements[2] = [name |-> "a", target_id |-> ColorId]
  /\ res.val.text = "[string,defaultEnums.Color]"

\* The places <<path, line number>> in the buffers d of the declarations of
\* sort decl written for the type id.
DeclsOf(d, decl, id) ==
  {pn \in UNION {{<<path, n>> : n \in 1..Len(d[path].lines)} :
                   path \in DOMAIN d} :
     /\ d[pn[1]].lines[pn[2]].decl = decl
     /\ d[pn[1]].lines[pn[2]].of = id}

\* The type handle at <<path, n>> of d names an interface written to
\* __types__/<module>.ts of its own module and a spec entry of its own
\* fully qualified name, both written for the handle's type.
HandleBound(d, pn) ==
  LET h == d[pn[1]].lines[pn[2]]
      t == TypeOf(h.of)
  IN /\ pn[1] = ModulesPath(t.name[1])
     /\ h.name = FullName(t.name)
     /\ \E q \in DeclsOf(d, "interface", h.of) :
          /\ q[1] = TypesPath(t.name[1])
          /\ h.interface = "__types__." \o d[q[1]].lines[q[2]].name
     /\ \E q \in DeclsOf(d, "spec", h.of) :
          q[1] = SpecPath /\ d[q[1]].lines[q[2]].name = h.name

\* In the buffers d every object type (with plainOnly: every one that is no
\* union and no intersection) has exactly one type handle, every handle is
\* one of an object type, and every handle is bound.
HandlesIn(d, plainOnly) ==
  /\ \A k \in 1..Len(types) :
       (types[k].kind = "object" /\ (plainOnly => ~IsCompound(types[k])))
         =>
         Cardinality(DeclsOf(d, "handle", types[k].id)) = 1
  /\ \A path \in DOMAIN d : \A n \in 1..Len(d[path].lines) :
       d[path].lines[n].decl = "handle" =>
         /\ d[path].lines[n].of \in TypeIds
         /\ TypeOf(d[path].lines[n].of).kind = "object"
         /\ HandleBound(d, <<path, n>>)

\* C12 as claimed: once the handles are emitted, and in what is written,
\* every object type of the snapshot has exactly one type handle, and it
\* binds the type's interface to the spec entry of the same fully qualified
\* name, both emitted.
C12_Original ==
  /\ pc \in {"index", "finally", "write", "done"} =>
       HandlesIn(dir, FALSE)
  /\ pc = "done" => HandlesIn(disk, FALSE)

\* C12 as amended: once the handles are emitted, and in what is written,
\* every object type of the snapshot that is neither a union nor an
\* intersection has exactly one type handle, a union or intersection type
\* has none, and every handle binds the type's interface to the spec entry
\* of the same fully qualified name, both emitted.
C12_Handles ==
  /\ pc \in {"index", "finally", "write", "done"} =>
       /\ HandlesIn(dir, TRUE)
       /\ \A k \in 1..Len(types) :
            IsCompound(types[k]) => DeclsOf(dir, "handle", types[k].id) = {}
  /\ pc = "done" => HandlesIn(disk, TRUE)

\* C12's case: the files are written for a snapshot with a union type and
\* an object type of another module that has a base, and that type's handle
\* is among them.
C12_Witness ==
  /\ pc = "done"
  /\ \E k \in 1..Len(types) : IsCompound(types[k])
  /\ \E k \in 1..Len(types) :
       /\ types[k].kind = "object"
       /\ types[k].bases # <<>>
       /\ types[k].name[1] = "other"
       /\ DeclsOf(disk, "handle", types[k].id) # {}

\* The links of the object type t, in declaration order.
LinksOf(t) == SelectSeq(t.pointers, LAMBDA ptr : ptr.kind = "link")

\* The sub-pointers of the link ptr other than the implicit two, with sort
\* "property" only or of any sort, as entries of a spec.
UserDefined(ptr, propertiesOnly) ==
  LET own == SelectSeq(ptr.pointers,
               LAMBDA prop : /\ prop.name \notin {"source", "target"}
                             /\ (propertiesOnly => prop.kind = "property"))
  IN [k \in 1..Len(own) |->
        [name |-> own[k].name, cardinality |-> toCardinality(own[k])]]

\* Both implicit pointers are among the sub-pointers of the link ptr.
HasImplicit(ptr) ==
  \A n \in {"source", "target"} :
    \E k \in 1..Len(ptr.pointers) : ptr.pointers[k].name = n

\* The spec entries in the buffers: line n of __spec__.ts is one.
SpecEntries ==
  IF SpecPath \in DOMAIN dir
  THEN {n \in 1..Len(dir[SpecPath].lines) :
          dir[SpecPath].lines[n].decl = "spec"}
  ELSE {}

\* C13 as claimed: in every spec entry the links stand in declaration
\* order, and the nested list of each holds exactly the link's sub-pointers
\* other than source and target, in declaration order; so it is non-empty
\* exactly for the links that have such a sub-pointer.
C13_Original ==
  \A n \in SpecEntries :
    LET e == dir[SpecPath].lines[n]
        links == LinksOf(TypeOf(e.of))
    IN /\ Len(e.links) = Len(links)
       /\ \A k \in 1..Len(links) :
            /\ e.links[k].name = links[k].name
            /\ e.links[k].properties = UserDefined(links[k], FALSE)

\* C13 as amended: in every spec entry the links stand in declaration
\* order; the nested list of a link whose sub-pointers include both source
\* and target holds exactly its sub-pointers of sort property other than
\* source and target, in declaration order, so it is non-empty exactly when
\* there is one; the nested list of a link with at most two sub-pointers is
\* empty whatever they are, and no list ever holds anything else.
C13_LinkProperties ==
  \A n \in SpecEntries :
    LET e == dir[SpecPath].lines[n]
        links == LinksOf(TypeOf(e.of))
    IN /\ Len(e.links) = Len(links)
       /\ \A k \in 1..Len(links) :
            /\ e.links[k].name = links[k].name
            /\ HasImplicit(links[k]) =>
                 e.links[k].properties = UserDefined(links[k], TRUE)
            /\ Len(links[k].pointers) <= 2 => e.links[k].properties = <<>>
            /\ e.links[k].properties \in
                 {<<>>, UserDefined(links[k], TRUE)}

\* C13's case: the files are written with a spec entry of a link that has
\* source, target, a link and a property as sub-pointers, and one of a link
\* with two link properties of its own.
C13_Witness ==
  /\ pc = "done"
  /\ \E n \in SpecEntries : \E k \in 1..Len(dir[SpecPath].lines[n].links) :
       LET ptr == LinksOf(TypeOf(dir[SpecPath].lines[n].of))[k]
       IN /\ ptr.pointers = Implicit \o <<Via, Since(StrId)>>
          /\ dir[SpecPath].lines[n].links[k].properties =
               <<[name |-> "since", cardinality |-> "AtMostOne"]>>

\* ------------------------------------------------- literals, as EdgeQL text

\* Material types: __kind__, __name__ and, by kind, __element__, __items__
\* (in order) or __shape__ (the <<key, type>> pairs).
ScalarMT(name) == [kind |-> "scalar", name |-> name]

ObjectMT(name) == [kind |-> "object", name |-> name]

ArrayMT(element) ==
  [kind |-> "array", name |-> "array<" \o element.name \o ">",
   element |-> element]

UnnamedTupleMT(name, items) ==
  [kind |-> "unnamedtuple", name |-> name, items |-> items]

NamedTupleMT(name, shape) ==
  [kind |-> "namedtuple", name |-> name, shape |-> shape]

\* What type.__items__[j] or type.__shape__[key] gives when there is none.
UndefinedMT == [kind |-> "undefined"]

\* Values, by what typeof, Array.isArray and instanceof tell of them.
StringVal(x) == [t |-> "string", s |-> x]

NumberVal(n) == [t |-> "number", n |-> n]

BooleanVal(b) == [t |-> "boolean", b |-> b]

BigintVal(n) == [t |-> "bigint", n |-> n]

ArrayVal(els) == [t |-> "array", els |-> els]

\* A Date, LocalDate, LocalDateTime, LocalTime or Duration, with the text
\* its toISOString or toString gives.
TemporalVal(class, text) == [t |-> class, text |-> text]

\* A plain object, with its own entries <<key, value>> in order.
ObjectVal(entries) == [t |-> "object", entries |-> entries]

\* null: typeof null is "object", and Object.entries(null) throws.
NullVal == [t |-> "null"]

UndefinedVal == [t |-> "undefined"]

TemporalClasses ==
  {"Date", "LocalDate", "LocalDateTime", "LocalTime", "Duration"}

\* new Error(`Invalid value for type ${type.__name__}`)
InvalidValueError(name) == [kind |-> "invalid_value", name |-> name]

\* A property of undefined or null is read.
TypeError == [kind |-> "type_error"]

Rendered(text) == [ok |-> TRUE, text |-> text]

\* Boolean.prototype.toString
BooleanToString(b) == IF b THEN "true" ELSE "false"

\* type.__items__[j]
ItemAt(type, j) == IF j <= Len(type.items) THEN type.items[j] ELSE UndefinedMT

\* type.__shape__[key]
ShapeAt(type, key) ==
  IF \E k \in 1..Len(type.shape) : type.shape[k][1] = key
  THEN type.shape[CHOOSE k \in 1..Len(type.shape) : type.shape[k][1] = key][2]
  ELSE UndefinedMT

RECURSIVE literalToEdgeQL(_, _)
RECURSIVE LiteralElements(_, _, _)

\* val.map over the elements from the j-th on (for a named tuple: over the
\* entries): the texts in order, or the first error.
LiteralElements(type, val, j) ==
  LET n == IF val.t = "array" THEN Len(val.els) ELSE Len(val.entries)
  IN IF j > n THEN [ok |-> TRUE, texts |-> <<>>]
     ELSE LET el == CASE type.kind = "array" ->
                           literalToEdgeQL(type.element, val.els[j])
                      [] type.kind = "unnamedtuple" ->
                           literalToEdgeQL(ItemAt(type, j), val.els[j])
                      [] type.kind = "namedtuple" ->
                           literalToEdgeQL(ShapeAt(type, val.entries[j][1]),
                                           val.entries[j][2])
          IN IF ~el.ok THEN el
             ELSE LET rest == LiteralElements(type, val, j + 1)
                  IN IF ~rest.ok THEN rest
                     ELSE [ok |-> TRUE,
                           texts |->
                             <<IF type.kind = "namedtuple"
                               THEN val.entries[j][1] \o " := " \o el.text
                               ELSE el.text>> \o rest.texts]

\* return `<${type.__name__}>${stringRep}`
Cast(type, stringRep) ==
  IF type.kind = "undefined" THEN Fail(TypeError)
  ELSE Rendered("<" \o type.name \o ">" \o stringRep)

literalToEdgeQL(type, val) ==
  CASE val.t = "string" -> Cast(type, "'" \o val.s \o "'")
    [] val.t = "number" -> Cast(type, ToString(val.n))
    [] val.t = "boolean" -> Cast(type, BooleanToString(val.b))
    [] val.t = "bigint" -> Cast(type, ToString(val.n) \o "n")
    [] val.t = "array" ->
         IF type.kind = "undefined" THEN Fail(TypeError)
         ELSE IF type.kind = "array"
         THEN LET els == LiteralElements(type, val, 1)
              IN IF ~els.ok THEN els
                 ELSE Cast(type, "[" \o Join(els.texts, ", ") \o "]")
         ELSE IF type.kind = "unnamedtuple"
         THEN LET els == LiteralElements(type, val, 1)
              IN IF ~els.ok THEN els
                 ELSE Cast(type, "( " \o Join(els.texts, ", ") \o " )")
         ELSE Fail(InvalidValueError(type.name))
    [] val.t \in TemporalClasses -> Cast(type, "'" \o val.text \o "'")
    [] val.t \in {"object", "null"} ->
         IF type.kind = "undefined" THEN Fail(TypeError)
         ELSE IF type.kind = "namedtuple"
         THEN IF val.t = "null" THEN Fail(TypeError)
              ELSE LET els == LiteralElements(type, val, 1)
                   IN IF ~els.ok THEN els
                      ELSE \* the mapped array is put in the template as it
                           \* is: Array.prototype.toString joins with ","
                           Cast(type, "( " \o Join(els.texts, ",") \o " )")
         ELSE Fail(InvalidValueError(type.name))
    [] OTHER ->
         IF type.kind = "undefined" THEN Fail(TypeError)
         ELSE Fail(InvalidValueError(type.name))

Int64 == ScalarMT("std::int64")

Str == ScalarMT("std::str")

\* The types literalToEdgeQL is applied with.
LiteralTypes ==
  {Int64, Str, ScalarMT("std::bool"), ScalarMT("std::bigint"),
   ScalarMT("cal::local_date"), ObjectMT("default::Person"),
   ArrayMT(Int64), ArrayMT(ArrayMT(Int64)),
   UnnamedTupleMT("tuple<std::int64, std::str>", <<Int64, Str>>),
   NamedTupleMT("tuple<a: std::int64, b: std::str>",
                <<(<<"a", Int64>>), (<<"b", Str>>)>>)}

\* The values literalToEdgeQL is applied to.
LiteralValues ==
  {StringVal("abc"), StringVal("a'b"), NumberVal(42), NumberVal(-1),
   BooleanVal(TRUE), BooleanVal(FALSE), BigintVal(7), NullVal, UndefinedVal,
   ArrayVal(<<>>), ArrayVal(<<NumberVal(1), NumberVal(2)>>),
   ArrayVal(<<NumberVal(1), StringVal("x")>>),
   ArrayVal(<<NumberVal(1), StringVal("x"), NumberVal(3)>>),
   ArrayVal(<<ArrayVal(<<NumberVal(1)>>), ArrayVal(<<>>)>>),
   ObjectVal(<<>>),
   ObjectVal(<<(<<"a", NumberVal(1)>>), (<<"b", StringVal("x")>>)>>),
   ObjectVal(<<(<<"b", StringVal("x")>>), (<<"a", NumberVal(1)>>)>>),
   ObjectVal(<<(<<"c", NumberVal(1)>>)>>)}
  \cup {TemporalVal(c, "2020-01-01") : c \in TemporalClasses}

InitLiteral ==
  /\ Idle
  /\ arg \in {[fn |-> "literalToEdgeQL", type |-> t, val |-> v] :
                t \in LiteralTypes, v \in LiteralValues}
  /\ res = NoResult

ApplyLiteralToEdgeQL ==
  /\ arg.fn = "literalToEdgeQL"
  /\ ~res.done
  /\ res' = [done |-> TRUE, val |-> literalToEdgeQL(arg.type, arg.val)]
  /\ UNCHANGED <<arg, pipeVars>>

SpecLiteral == InitLiteral /\ [][ApplyLiteralToEdgeQL]_vars

\* The text of the value val of type type with no cast anywhere in it.
RECURSIVE Bare(_, _)
Bare(type, val) ==
  CASE val.t = "string" -> "'" \o val.s \o "'"
    [] val.t = "number" -> ToString(val.n)
    [] val.t = "boolean" -> BooleanToString(val.b)
    [] val.t = "bigint" -> ToString(val.n) \o "n"
    [] val.t \in TemporalClasses -> "'" \o val.text \o "'"
    [] val.t = "array" /\ type.kind = "array" ->
         "[" \o Join([j \in 1..Len(val.els) |->
                        Bare(type.element, val.els[j])], ", ") \o "]"
    [] val.t = "array" /\ type.kind = "unnamedtuple" ->
         "( " \o Join([j \in 1..Len(val.els) |->
                         Bare(ItemAt(type, j), val.els[j])], ", ") \o " )"
    [] val.t = "object" /\ type.kind = "namedtuple" ->
         "( " \o Join([j \in 1..Len(val.entries) |->
                         val.entries[j][1] \o " := "
                           \o Bare(ShapeAt(type, val.entries[j][1]),
                                   val.entries[j][2])], ",") \o " )"

\* C14 as claimed: the text literalToEdgeQL returns is the cast <typeName>
\* of the literal's own type followed by the value text, and the elements
\* inside an array, an unnamed tuple or a named tuple carry no cast.
C14_Original ==
  (res.done /\ arg.fn = "literalToEdgeQL" /\ res.val.ok) =>
    res.val.text = "<" \o arg.type.name \o ">" \o Bare(arg.type, arg.val)

\* The scalar types a value of sort t may be declared with.
ScalarsFor(t) ==
  CASE t = "string" -> {"std::str"}
    [] t = "number" -> {"std::int64"}
    [] t = "boolean" -> {"std::bool"}
    [] t = "bigint" -> {"std::bigint"}
    [] t = "LocalDate" -> {"cal::local_date"}
    [] OTHER -> {}

\* The shape of val matches the kind of type.
Supported(type, val) ==
  \/ type.kind = "scalar" /\ type.name \in ScalarsFor(val.t)
  \/ val.t = "array" /\ type.kind \in {"array", "unnamedtuple"}
  \/ val.t = "object" /\ type.kind = "namedtuple"

\* C15 as claimed: literalToEdgeQL returns text only when the shape of the
\* value matches the kind of the declared type, and raises an error for
\* every other pair.
C15_Original ==
  (res.done /\ arg.fn = "literalToEdgeQL" /\ res.val.ok) =>
    Supported(arg.type, arg.val)

\* ---------------------------------------------- expressions, as EdgeQL text

\* The most members a set expression of the model has.
MaxMembers == 2

\* Expressions: __kind__, __element__ and, by kind, __parent__ (<<>> when
\* there is none, else <<type expression, linkName>>), __value__ or __exprs__.
PathNode(element, parent) ==
  [kind |-> "PathNode", element |-> element, parent |-> parent]

PathLeaf(element, parent) ==
  [kind |-> "PathLeaf", element |-> element, parent |-> parent]

Literal(element, value) ==
  [kind |-> "Literal", element |-> element, value |-> value]

SetExpr(element, exprs) ==
  [kind |-> "Set", element |-> element, exprs |-> exprs]

\* An expression of a kind toEdgeQL does not know.
OtherExpr(element) == [kind |-> "Other", element |-> element]

\* new Error(`Invalid arguments to set constructor: ${names.join(", ")}`)
SetError(names) == [kind |-> "invalid_set", names |-> names]

\* new Error(`Unrecognized expression kind.`)
KindError == [kind |-> "unrecognized_kind"]

\* String.prototype.trim on the link names of the model.
Trim(text) == IF text = "name " THEN "name" ELSE text

\* EveryObject with some in the place of every.
SomeObject(exprs) ==
  \E k \in 1..Len(exprs) : exprs[k].element.kind = "object"

\* exprs.every((ex) => ex.__element__.__kind__ === TypeKind.object)
EveryObject(exprs) ==
  \A k \in 1..Len(exprs) : exprs[k].element.kind = "object"

\* exprs.every((ex) => ex.__element__.__kind__ !== TypeKind.object)
EveryNonObject(exprs) ==
  \A k \in 1..Len(exprs) : exprs[k].element.kind # "object"

RECURSIVE toEdgeQL(_)
RECURSIVE SetMembers(_, _)

\* exprs.map((ex) => ex.toEdgeQL()) from the j-th member on: the texts in
\* order, or the first error.
SetMembers(exprs, j) ==
  IF j > Len(exprs) THEN [ok |-> TRUE, texts |-> <<>>]
  ELSE LET el == toEdgeQL(exprs[j])
       IN IF ~el.ok THEN el
          ELSE LET rest == SetMembers(exprs, j + 1)
               IN IF ~rest.ok THEN rest
                  ELSE [ok |-> TRUE, texts |-> <<el.text>> \o rest.texts]

toEdgeQL(expr) ==
  CASE expr.kind \in {"PathNode", "PathLeaf"} ->
         IF expr.parent = <<>> THEN Rendered(expr.element.name)
         ELSE LET up == toEdgeQL(expr.parent[1])
              IN IF ~up.ok THEN up
                 ELSE Rendered(up.text \o "." \o Trim(expr.parent[2]))
    [] expr.kind = "Literal" -> literalToEdgeQL(expr.element, expr.value)
    [] expr.kind = "Set" ->
         IF EveryObject(expr.exprs) \/ EveryNonObject(expr.exprs)
         THEN LET els == SetMembers(expr.exprs, 1)
              IN IF ~els.ok THEN els
                 ELSE Rendered("{ " \o Join(els.texts, ", ") \o " }")
         ELSE Fail(SetError([k \in 1..Len(expr.exprs) |-> expr.element.name]))
    [] OTHER -> Fail(KindError)

Person == ObjectMT("default::Person")

PersonNode == PathNode(Person, <<>>)

\* The expressions that are members of the sets of the model: paths,
\* literals, one literal that does not render, and sets of them.
Members ==
  LET simple == {PersonNode,
                 PathNode(ObjectMT("default::Movie"), <<>>),
                 PathLeaf(Str, <<PersonNode, "name ">>),
                 PathLeaf(Person, <<PersonNode, "friends">>),
                 Literal(Int64, NumberVal(42)),
                 Literal(Str, StringVal("abc")),
                 Literal(Int64, ObjectVal(<<>>))}
  IN simple \cup {SetExpr(Str, <<Literal(Str, StringVal("abc")),
                               Literal(Int64, NumberVal(42))>>),
                  SetExpr(Person, <<PersonNode,
                                    Literal(Str, StringVal("abc"))>>)}

\* The expressions toEdgeQL is applied to.
Expressions ==
  Members \cup {OtherExpr(Str)}
  \cup {SetExpr(el, exprs) :
          el \in {Person, Str},
          exprs \in UNION {[1..n -> Members] : n \in 0..MaxMembers}}

InitEdgeQL ==
  /\ Idle
  /\ arg \in {[fn |-> "toEdgeQL", expr |-> e] : e \in Expressions}
  /\ res = NoResult

ApplyToEdgeQL ==
  /\ arg.fn = "toEdgeQL"
  /\ ~res.done
  /\ res' = [done |-> TRUE, val |-> toEdgeQL(arg.expr)]
  /\ UNCHANGED <<arg, pipeVars>>

SpecEdgeQL == InitEdgeQL /\ [][ApplyToEdgeQL]_vars

\* The set expression under test: its members, whether their element kinds
\* are all object or all not, and whether each renders.
Homogeneous(exprs) ==
  \/ \A k \in 1..Len(exprs) : exprs[k].element.kind = "object"
  \/ \A k \in 1..Len(exprs) : exprs[k].element.kind # "object"

AllRender(exprs) == \A k \in 1..Len(exprs) : toEdgeQL(exprs[k]).ok

SetText(exprs) ==
  "{ " \o Join([k \in 1..Len(exprs) |-> toEdgeQL(exprs[k]).text], ", ")
       \o " }"

\* C16 as claimed: a set expression renders exactly when its members'
\* element kinds are all object or all non-object, and then to "{ ", the
\* members' renderings in order joined by ", ", and " }"; a mixed set fails.
C16_Original ==
  (res.done /\ arg.fn = "toEdgeQL" /\ arg.expr.kind = "Set") =>
    /\ res.val.ok = Homogeneous(arg.expr.exprs)
    /\ res.val.ok => res.val.text = SetText(arg.expr.exprs)

\* C16 as amended: a set expression renders exactly when its members'
\* element kinds are all object or all non-object and every member renders,
\* and then to "{ ", the members' renderings in order joined by ", ", and
\* " }"; a mixed set fails with the set constructor's error whatever its
\* members are, and a set with a member that does not render fails with
\* that member's error.
C16_SetRendering ==
  (res.done /\ arg.fn = "toEdgeQL" /\ arg.expr.kind = "Set") =>
    LET exprs == arg.expr.exprs
    IN /\ res.val.ok = (Homogeneous(exprs) /\ AllRender(exprs))
       /\ res.val.ok => res.val.text = SetText(exprs)
       /\ ~Homogeneous(exprs) => res.val.err.kind = "invalid_set"
       /\ (Homogeneous(exprs) /\ ~AllRender(exprs)) =>
            \E k \in 1..Len(exprs) :
              /\ ~toEdgeQL(exprs[k]).ok
              /\ res.val = toEdgeQL(exprs[k])
              /\ \A j \in 1..(k - 1) : toEdgeQL(exprs[j]).ok

\* C16's case: a set of two different object-typed paths was rendered.
C16_Witness ==
  /\ res.done
  /\ arg.fn = "toEdgeQL"
  /\ arg.expr.kind = "Set"
  /\ res.val.ok
  /\ res.val.text = "{ default::Person.friends, default::Movie }"

\* C17 as claimed: the error of a mixed set lists the element type name of
\* each member of the set, in input order.
C17_Original ==
  (/\ res.done
   /\ arg.fn = "toEdgeQL"
   /\ arg.expr.kind = "Set"
   /\ ~res.val.ok
   /\ res.val.err.kind = "invalid_set"
   /\ ~Homogeneous(arg.expr.exprs)) =>
    res.val.err.names =
      [k \in 1..Len(arg.expr.exprs) |-> arg.expr.exprs[k].element.name]

\* ------------------------------------------------------ generateQueryFiles

\* The most .edgeql files getMatches finds.
MaxFiles == 2

\* headerComment of ./genutil, as it is put before every written file.
HeaderComment == "headerComment"

\* What becomes of a query file: it is read and analysed, or reading it
\* fails, or it is empty, or analysing it fails.
Outcomes == {"ok", "read_fails", "empty", "analyse_fails"}

QueryPaths == <<"a", "b", "c", "d">>

\* The query files: a path, what becomes of the file, types.imports.
QueryFile(k, outcome) ==
  [path |-> QueryPaths[k], outcome |-> outcome,
   imports |-> IF k = 1 THEN <<"LocalDate">>
               ELSE IF k = 2 THEN <<"Duration", "LocalDate">> ELSE <<>>]

\* export function stringifyImports
stringifyImports(imports) ==
  IF imports = <<>> THEN ""
  ELSE "import type {" \o Join(imports, ", ") \o "} from \"edgedb\";"

\* generateFiles: the files of one query for the target, in order.
generateFiles(target, f) ==
  LET base == f.path \o ".query"
      tsImports == AddAll(<<"Executor">>, f.imports)
  IN CASE target = "cjs" ->
            <<[path |-> base \o ".js", contents |-> "jsImpl(" \o f.path \o ")",
               imports |-> <<>>, extension |-> ".js"],
              [path |-> base \o ".d.ts",
               contents |-> "dtsImpl(" \o f.path \o ")",
               imports |-> tsImports, extension |-> ".d.ts"]>>
       [] target = "ts" ->
            <<[path |-> base \o ".ts", contents |-> "tsImpl(" \o f.path \o ")",
               imports |-> tsImports, extension |-> ".ts"]>>

\* headerComment + `${stringifyImports(imports)}\n\n${contents}`
FileText(f) ==
  HeaderComment \o stringifyImports(f.imports) \o "\n\n" \o f.contents

\* adapter.fs.writeFile(path, text)
WriteFile(w, path, text) ==
  [q \in DOMAIN w \cup {path} |-> IF q = path THEN text ELSE w[q]]

\* The file as filesByExtension holds it; order is the place of its key
\* among the keys of the object, which is the order of insertion.
Entry(f, order) ==
  [path |-> f.path, contents |-> f.contents, imports |-> f.imports,
   extension |-> f.extension, order |-> order]

\* for (const f of files): every file is stored under its extension.
MergeFileOver(fbe, f) ==
  [e \in DOMAIN fbe \cup {f.extension} |->
     IF e = f.extension
     THEN Entry(f, IF e \in DOMAIN fbe THEN fbe[e].order
                   ELSE 1 + Cardinality(DOMAIN fbe))
     ELSE fbe[e]]

\* One round of `for (const f of files)`: f is stored under its extension,
\* or appended to the file that is there.
MergeFile(fbe, f) ==
  IF f.extension \notin DOMAIN fbe
  THEN [e \in DOMAIN fbe \cup {f.extension} |->
          IF e = f.extension THEN Entry(f, 1 + Cardinality(DOMAIN fbe))
          ELSE fbe[e]]
  ELSE [fbe EXCEPT
          ![f.extension].contents = @ \o "\n\n" \o f.contents,
          ![f.extension].imports = AddAll(@, f.imports)]

RECURSIVE MergeFiles(_, _)
MergeFiles(fbe, files) ==
  IF files = <<>> THEN fbe
  ELSE MergeFiles(MergeFile(fbe, Head(files)), Tail(files))

\* Object.entries(filesByExtension), in the order of the keys.
Entries(fbe) ==
  [n \in 1..Cardinality(DOMAIN fbe) |->
     CHOOSE e \in DOMAIN fbe : fbe[e].order = n]

\* if (!wasError): the merged files are written.
ShouldWriteAlways(we) == TRUE

ShouldWrite(we) == ~we

Task(p, left) == [pc |-> p, left |-> left]

SetTask(k, p, left) == [task EXCEPT ![k] = Task(p, left)]

FileMode == options.file # ""

\* The callback of match k has settled.
Settled(k) == task[k].pc \in {"ok", "failed", "skipped"}

\* catch (err): the error is reported; single-file mode remembers it.
Caught(k) ==
  /\ task' = SetTask(k, "failed", <<>>)
  /\ log' = Append(log, matches[k].path)
  /\ wasError' = (FileMode \/ wasError)

\* generateQueryFiles up to `await getMatches(root)`.
QStart ==
  /\ main.pc = "start"
  /\ main' = [main EXCEPT !.pc = IF FileMode /\ options.watch THEN "thrown"
                                 ELSE "matches"]
  /\ UNCHANGED <<options, matches, task, filesByExtension, wasError,
                 written, log>>
  /\ UNCHANGED <<types, pc, i, err, fetchVars, outVars, fnVars>>

\* getMatches has resolved; up to `await client.ensureConnected()`.
QMatches ==
  /\ main.pc = "matches"
  /\ main' = [main EXCEPT !.pc = IF Len(matches) = 0 THEN "returned"
                                 ELSE "connect"]
  /\ UNCHANGED <<options, matches, task, filesByExtension, wasError,
                 written, log>>
  /\ UNCHANGED <<types, pc, i, err, fetchVars, outVars, fnVars>>

\* The client is connected; matches.map starts every callback, each runs
\* up to `await adapter.readFileUtf8(path)`; up to `await Promise.all`.
QConnect ==
  /\ main.pc = "connect"
  /\ task' = [k \in 1..Len(matches) |-> Task("read", <<>>)]
  /\ filesByExtension' = <<>>
  /\ wasError' = FALSE
  /\ main' = [main EXCEPT !.pc = "gather"]
  /\ UNCHANGED <<options, matches, written, log>>
  /\ UNCHANGED <<types, pc, i, err, fetchVars, outVars, fnVars>>

\* readFileUtf8 of match k has settled; up to `await $.analyzeQuery`.
QRead(k) ==
  /\ main.pc = "gather"
  /\ task[k].pc = "read"
  /\ IF matches[k].outcome = "read_fails" THEN Caught(k)
     ELSE IF matches[k].outcome = "empty" /\ ~FileMode
     THEN /\ task' = SetTask(k, "skipped", <<>>)
          /\ UNCHANGED <<log, wasError>>
     ELSE /\ task' = SetTask(k, "analyse", <<>>)
          /\ UNCHANGED <<log, wasError>>
  /\ UNCHANGED <<options, matches, filesByExtension, written, main>>
  /\ UNCHANGED <<types, pc, i, err, fetchVars, outVars, fnVars>>

\* analyzeQuery of match k has settled: on failure the catch block, else
\* generateFiles and the loop over its files, in single-file mode to the
\* end of the callback, else up to the first `await adapter.fs.writeFile`.
\* Whether the server accepts an empty query is its own affair.
QAnalyse(k) ==
  /\ main.pc = "gather"
  /\ task[k].pc = "analyse"
  /\ \E accepted \in BOOLEAN :
       LET f == matches[k]
           fails == \/ f.outcome = "analyse_fails"
                    \/ f.outcome = "empty" /\ ~accepted
           files == generateFiles(options.target, f)
       IN IF fails
          THEN Caught(k) /\ UNCHANGED filesByExtension
          ELSE IF FileMode
          THEN /\ filesByExtension' = MergeFiles(filesByExtension, files)
               /\ task' = SetTask(k, "ok", <<>>)
               /\ UNCHANGED <<log, wasError>>
          ELSE /\ task' = SetTask(k, "write", files)
               /\ UNCHANGED <<filesByExtension, log, wasError>>
  /\ UNCHANGED <<options, matches, written, main>>
  /\ UNCHANGED <<types, pc, i, err, fetchVars, outVars, fnVars>>

\* Per-file mode: one writeFile of match k; up to the next one, or to the
\* end of generateFilesForQuery.
QWrite(k) ==
  /\ main.pc = "gather"
  /\ task[k].pc = "write"
  /\ LET f == Head(task[k].left)
         rest == Tail(task[k].left)
     IN /\ written' = WriteFile(written, f.path, FileText(f))
        /\ task' = SetTask(k, IF rest = <<>> THEN "ok" ELSE "write", rest)
  /\ UNCHANGED <<options, matches, filesByExtension, wasError, log, main>>
  /\ UNCHANGED <<types, pc, i, err, fetchVars, outVars, fnVars>>

\* Promise.all has resolved: every callback has settled. Single-file mode
\* goes on to write the merged files unless a callback caught an error.
QGather ==
  /\ main.pc = "gather"
  /\ \A k \in 1..Len(task) : Settled(k)
  /\ main' = IF FileMode /\ ShouldWrite(wasError)
                /\ filesByExtension # <<>>
             THEN [pc |-> "writing", left |-> Entries(filesByExtension)]
             ELSE [pc |-> "returned", left |-> <<>>]
  /\ UNCHANGED <<options, matches, task, filesByExtension, wasError,
                 written, log>>
  /\ UNCHANGED <<types, pc, i, err, fetchVars, outVars, fnVars>>

\* Single-file mode: one writeFile of the loop over the merged files.
QWriteMerged ==
  /\ main.pc = "writing"
  /\ LET extension == Head(main.left)
         rest == Tail(main.left)
         file == filesByExtension[extension]
     IN /\ written' = WriteFile(written, options.file \o extension,
                                FileText(file))
        /\ main' = [pc |-> IF rest = <<>> THEN "returned" ELSE "writing",
                    left |-> rest]
  /\ UNCHANGED <<options, matches, task, filesByExtension, wasError, log>>
  /\ UNCHANGED <<types, pc, i, err, fetchVars, outVars, fnVars>>

\* The lists of query files getMatches can find.
MatchLists ==
  UNION {[1..n -> Outcomes] : n \in 0..MaxFiles}

\* The options of a run: --file, --watch, --target.
OptionChoices ==
  [file : {"", "out"}, watch : BOOLEAN, target : {"ts", "cjs"}]

InitQuery ==
  /\ PipeIdle
  /\ arg = NoArg
  /\ res = NoResult
  /\ options \in OptionChoices
  /\ \E o \in MatchLists :
       matches = [k \in DOMAIN o |-> QueryFile(k, o[k])]
  /\ task = <<>>
  /\ filesByExtension = <<>>
  /\ wasError = FALSE
  /\ written = <<>>
  /\ log = <<>>
  /\ main = [pc |-> "start", left |-> <<>>]

QueryNext ==
  \/ QStart
  \/ QMatches
  \/ QConnect
  \/ \E k \in 1..Len(task) : QRead(k)
  \/ \E k \in 1..Len(task) : QAnalyse(k)
  \/ \E k \in 1..Len(task) : QWrite(k)
  \/ QGather
  \/ QWriteMerged

SpecQuery == InitQuery /\ [][QueryNext]_vars

\* ------------------------------------------------- generateQueryFiles claims

Returned == main.pc = "returned" /\ task # <<>>

Failed(k) == task[k].pc = "failed"

Succeeded(k) == task[k].pc = "ok"

\* Every failure was caught and reported under the path of its file.
FailuresReported ==
  \A k \in 1..Len(task) :
    Failed(k) <=> \E n \in 1..Len(log) : log[n] = matches[k].path

\* The per-query outputs of match k are written as generateFiles gave them.
OutputsWritten(k) ==
  LET files == generateFiles(options.target, matches[k])
  IN \A n \in 1..Len(files) :
       /\ files[n].path \in DOMAIN written
       /\ written[files[n].path] = FileText(files[n])

\* The extensions generateFiles gives files for under the target.
ExtensionsOf(target) ==
  LET files == generateFiles(target, matches[1])
  IN {files[n].extension : n \in 1..Len(files)}

\* The file of match k that has the extension.
FileOf(k, extension) ==
  LET files == generateFiles(options.target, matches[k])
  IN files[CHOOSE n \in 1..Len(files) : files[n].extension = extension]

\* The single-file outputs are written as the merged buffer holds them.
MergedWritten ==
  /\ DOMAIN written = {options.file \o e : e \in DOMAIN filesByExtension}
  /\ \A e \in DOMAIN filesByExtension :
       written[options.file \o e] = FileText(filesByExtension[e])

\* C18 as stated: when generateQueryFiles returns after a failure in some
\* query file, the failure is reported for that file, and in per-file
\* mode and in single-file mode alike the outputs of every successfully
\* processed file are written.
C18_Original ==
  (Returned /\ \E k \in 1..Len(task) : Failed(k)) =>
    /\ FailuresReported
    /\ \A k \in 1..Len(task) :
         Succeeded(k) =>
           IF FileMode
           THEN \A e \in ExtensionsOf(options.target) :
                  (options.file \o e) \in DOMAIN written
           ELSE OutputsWritten(k)

\* C18: when generateQueryFiles returns, every failure was caught and
\* reported for its file only and every file that could be processed was
\* processed; in per-file mode the outputs of every successfully processed
\* file are written; in single-file mode the merged files are written when
\* no file failed and nothing is written when some file failed.
C18_FailureIsolated ==
  Returned =>
    /\ FailuresReported
    /\ \A k \in 1..Len(task) : matches[k].outcome = "ok" => Succeeded(k)
    /\ IF ~FileMode
       THEN \A k \in 1..Len(task) : Succeeded(k) => OutputsWritten(k)
       ELSE IF \E k \in 1..Len(task) : Failed(k)
       THEN written = <<>>
       ELSE MergedWritten

\* Per-file mode has returned; one file failed, another was written.
C18_Witness ==
  /\ Returned
  /\ ~FileMode
  /\ \E k, j \in 1..Len(task) :
       Failed(k) /\ Succeeded(j) /\ OutputsWritten(j)

\* The orders in which the callbacks of the matches in S can finish.
Orders(S) ==
  {o \in [1..Cardinality(S) -> S] :
     \A m, n \in DOMAIN o : m # n => o[m] # o[n]}

RECURSIVE ImportsUnion(_, _)
ImportsUnion(order, extension) ==
  IF order = <<>> THEN <<>>
  ELSE AddAll(ImportsUnion(SubSeq(order, 1, Len(order) - 1), extension),
              FileOf(order[Len(order)], extension).imports)

\* The buffer is what the files of the matches in order, each once, make.
MergedFrom(order) ==
  IF order = <<>> THEN filesByExtension = <<>>
  ELSE /\ DOMAIN filesByExtension = ExtensionsOf(options.target)
       /\ \A e \in DOMAIN filesByExtension :
            /\ filesByExtension[e].contents =
                 Join([n \in DOMAIN order |-> FileOf(order[n], e).contents],
                      "\n\n")
            /\ filesByExtension[e].imports = ImportsUnion(order, e)

\* C19: in single-file mode, at every point of every interleaving, the
\* merged buffer of each extension is the contents of the successfully
\* processed files, each exactly once and in one order for all
\* extensions, joined by blank lines, with the union of their imports.
C19_MergedBuffer ==
  (FileMode /\ task # <<>>) =>
    \E order \in Orders({k \in 1..Len(task) : Succeeded(k)}) :
      MergedFrom(order)

\* Two files were merged, the second match finishing first.
C19_Witness ==
  /\ FileMode
  /\ options.target = "ts"
  /\ ".ts" \in DOMAIN filesByExtension
  /\ filesByExtension[".ts"].contents = "tsImpl(b)\n\ntsImpl(a)"
  /\ filesByExtension[".ts"].imports = <<"Executor", "Duration", "LocalDate">>

====
